---- MODULE Spec2Model ----
(***************************************************************************)
(* Model of the temporal alignment / anomaly detection engine of the      *)
(* video latency analyzer:                                                 *)
(*   src/src/core/roi_tracker.py      ROITracker                           *)
(*   src/src/core/time_detector.py    detect_time_real_optimized, parsing  *)
(*   src/src/core/anomaly_detector.py AnomalyDetector                      *)
(*   src/src/gui/worker.py            AnalysisWorker.analyze_video         *)
(*                                                                         *)
(* Representation choices                                                  *)
(*  - Python None is the empty tuple <<>> for regions and labels, and the  *)
(*    integer NoneMs (-1) for millisecond values and frame numbers (all    *)
(*    real values are >= 0).                                               *)
(*  - roi_confidence is a Python float that only ever moves in steps of    *)
(*    0.1 and 0.05; it is kept in twentieths (0.05 = 1, 1.0 = 20).  The    *)
(*    float comparisons against 0.3, 0.5 and 0.6 agree with the exact      *)
(*    ones on every value reachable within 600,000 updates (enumerated     *)
(*    with the interpreter), so the exact arithmetic decides the same      *)
(*    branches as the code.                                                *)
(*  - A canonical time label "HH:MM:SS.mmm" is the tuple <<H, M, S, ms>>.  *)
(***************************************************************************)
EXTENDS Integers, Sequences, FiniteSets, TLC

\* ---------------------------------------------------------------- bounds
MaxCalls == 12          \* tracker / detector method calls explored per run
MaxFrames == 2          \* frames analysed per run from the start of the loop
MaxWarmFrames == 1      \* frames analysed per run after the steady frames
FrameLimit == 4         \* frame_limit of the frame-by-frame loop
MaxStarts == 2          \* start() calls that create a monitor thread
MaxSamples == 2         \* samples counted in the monitor's data list

\* ------------------------------------------------------- generic helpers
Min(a, b) == IF a < b THEN a ELSE b
Max(a, b) == IF a > b THEN a ELSE b
Abs(a) == IF a < 0 THEN -a ELSE a

NoneMs == -1
NoneRoi == <<>>

\* ------------------------------------------------ ROITracker (constants)
CONF_ONE == 20          \* 1.0
CONF_INIT == 10         \* 0.5, establish_roi
CONF_VALID == 10        \* 0.5, has_valid_roi
CONF_STABLE == 12       \* 0.6, update_roi
CONF_RESET == 6         \* 0.3, update_roi
CONF_UP_FAST == 2       \* +0.1
CONF_UP_SLOW == 1       \* +0.05
CONF_DOWN == 2          \* -0.1
MAX_FAILS == 3
MAX_FRAME_GAP == 100

\* Regions the recognition collaborator can report, and frame numbers
\* handed to the tracker.
Rois == { <<10, 10, 50, 20>>, <<12, 10, 52, 20>> }
FrameIdxs == { 0, 1, 100, 102, 250 }

\* ROITracker.__init__
NewTracker ==
    [ roi |-> NoneRoi, roi_confidence |-> 0, consecutive_fails |-> 0,
      last_success_frame |-> -1, total_uses |-> 0, success_count |-> 0 ]

\* has_valid_roi whose confidence test uses the reset threshold 0.3
has_valid_roi_lowconf(t, current_frame_idx) ==
    IF t.roi = NoneRoi THEN FALSE
    ELSE IF t.consecutive_fails >= MAX_FAILS THEN FALSE
    ELSE IF current_frame_idx - t.last_success_frame > MAX_FRAME_GAP THEN FALSE
    ELSE IF t.roi_confidence < CONF_RESET THEN FALSE
    ELSE TRUE

\* ROITracker.has_valid_roi
has_valid_roi(t, current_frame_idx) ==
    IF t.roi = NoneRoi THEN FALSE
    ELSE IF t.consecutive_fails >= MAX_FAILS THEN FALSE
    ELSE IF current_frame_idx - t.last_success_frame > MAX_FRAME_GAP THEN FALSE
    ELSE IF t.roi_confidence < CONF_VALID THEN FALSE
    ELSE TRUE

\* ROITracker.reset (total_uses and success_count are not touched)
reset(t) ==
    [ t EXCEPT !.roi = NoneRoi, !.roi_confidence = 0,
               !.consecutive_fails = 0, !.last_success_frame = -1 ]

\* update_roi with a failure that is not counted
update_roi_nocount(t, roi, frame_idx, success) ==
    LET t1 == [ t EXCEPT !.total_uses = @ + 1 ] IN
    IF success
    THEN [ t1 EXCEPT !.roi = roi, !.last_success_frame = frame_idx,
                     !.consecutive_fails = 0, !.success_count = @ + 1,
                     !.roi_confidence = IF @ < CONF_STABLE
                                        THEN Min(CONF_ONE, @ + CONF_UP_FAST)
                                        ELSE Min(CONF_ONE, @ + CONF_UP_SLOW) ]
    ELSE LET t2 == [ t1 EXCEPT !.roi_confidence = Max(0, @ - CONF_DOWN) ] IN
         IF t2.consecutive_fails >= MAX_FAILS \/ t2.roi_confidence < CONF_RESET
         THEN reset(t2) ELSE t2

\* update_roi without the min(1.0, ...) / max(0.0, ...) clamps
update_roi_noclamp(t, roi, frame_idx, success) ==
    LET t1 == [ t EXCEPT !.total_uses = @ + 1 ] IN
    IF success
    THEN [ t1 EXCEPT !.roi = roi, !.last_success_frame = frame_idx,
                     !.consecutive_fails = 0, !.success_count = @ + 1,
                     !.roi_confidence = IF @ < CONF_STABLE
                                        THEN @ + CONF_UP_FAST
                                        ELSE @ + CONF_UP_SLOW ]
    ELSE LET t2 == [ t1 EXCEPT !.consecutive_fails = @ + 1,
                               !.roi_confidence = @ - CONF_DOWN ] IN
         IF t2.consecutive_fails >= MAX_FAILS \/ t2.roi_confidence < CONF_RESET
         THEN reset(t2) ELSE t2

\* update_roi whose reset test is  consecutive_fails > 3 or confidence < 0.2
update_roi_latereset(t, roi, frame_idx, success) ==
    LET t1 == [ t EXCEPT !.total_uses = @ + 1 ] IN
    IF success
    THEN [ t1 EXCEPT !.roi = roi, !.last_success_frame = frame_idx,
                     !.consecutive_fails = 0, !.success_count = @ + 1,
                     !.roi_confidence = IF @ < CONF_STABLE
                                        THEN Min(CONF_ONE, @ + CONF_UP_FAST)
                                        ELSE Min(CONF_ONE, @ + CONF_UP_SLOW) ]
    ELSE LET t2 == [ t1 EXCEPT !.consecutive_fails = @ + 1,
                               !.roi_confidence = Max(0, @ - CONF_DOWN) ] IN
         IF t2.consecutive_fails > MAX_FAILS \/ t2.roi_confidence < CONF_RESET - 2
         THEN reset(t2) ELSE t2

\* ROITracker.update_roi
update_roi(t, roi, frame_idx, success) ==
    LET t1 == [ t EXCEPT !.total_uses = @ + 1 ] IN
    IF success
    THEN [ t1 EXCEPT !.roi = roi, !.last_success_frame = frame_idx,
                     !.consecutive_fails = 0, !.success_count = @ + 1,
                     !.roi_confidence = IF @ < CONF_STABLE
                                        THEN Min(CONF_ONE, @ + CONF_UP_FAST)
                                        ELSE Min(CONF_ONE, @ + CONF_UP_SLOW) ]
    ELSE LET t2 == [ t1 EXCEPT !.consecutive_fails = @ + 1,
                               !.roi_confidence = Max(0, @ - CONF_DOWN) ] IN
         IF t2.consecutive_fails >= MAX_FAILS \/ t2.roi_confidence < CONF_RESET
         THEN reset(t2) ELSE t2

\* establish_roi that counts one more success instead of restarting the
\* two counters
establish_roi_keepcount(t, roi, frame_idx) ==
    [ t EXCEPT !.roi = roi, !.roi_confidence = CONF_INIT,
               !.consecutive_fails = 0, !.last_success_frame = frame_idx,
               !.success_count = @ + 1 ]

\* ROITracker.establish_roi
establish_roi(t, roi, frame_idx) ==
    [ t EXCEPT !.roi = roi, !.roi_confidence = CONF_INIT,
               !.consecutive_fails = 0, !.last_success_frame = frame_idx,
               !.total_uses = 1, !.success_count = 1 ]

\* ------------------------------------------------------------ time labels
\* Canonical labels the recognition collaborator can produce.
NoLabel == <<>>
Labels == { <<0, 0, 0, 0>>, <<0, 0, 1, 0>>, <<0, 0, 5, 0>>, <<0, 0, 12, 0>> }

\* parse_time_to_ms
parse_time_to_ms(time_str) ==
    IF time_str = NoLabel THEN NoneMs
    ELSE ((time_str[1] * 3600 + time_str[2] * 60 + time_str[3]) * 1000) + time_str[4]

\* ------------------------------------------- detect_time_real_optimized
\* Outcome of one search phase: the region and label that the recognition
\* of the searched area followed by _verify_and_expand_roi hands back, or
\* NoHit when nothing is found, the candidate is rejected or the
\* collaborator raises (the fast track's except clause, the crop loop's
\* except/continue).
NoHit == [ bbox |-> NoneRoi, time_str |-> NoLabel ]
Hits == [ bbox : Rois, time_str : Labels ]
Outcomes == Hits \cup { NoHit }

\* detect_time_real_optimized without the update_roi(..., success=False)
\* that follows a failed fast track
detect_time_real_optimized_norecord(t, fidx, fast, glob) ==
    LET valid == has_valid_roi(t, fidx)
        fastHit == valid /\ fast # NoHit
    IN  IF fastHit
        THEN [ tracker |-> update_roi(t, fast.bbox, fidx, TRUE),
               roi |-> fast.bbox, time_str |-> fast.time_str,
               fast_tried |-> TRUE, global_tried |-> FALSE,
               ops |-> << "update_roi_ok" >> ]
        ELSE IF glob # NoHit
        THEN [ tracker |-> establish_roi(t, glob.bbox, fidx),
               roi |-> glob.bbox, time_str |-> glob.time_str,
               fast_tried |-> valid, global_tried |-> TRUE,
               ops |-> << "establish_roi" >> ]
        ELSE [ tracker |-> t, roi |-> NoneRoi, time_str |-> NoLabel,
               fast_tried |-> valid, global_tried |-> TRUE, ops |-> << >> ]

\* detect_time_real_optimized: fast track when has_valid_roi, then the
\* global search; returns the tracker after the call, the (roi, time_str)
\* pair handed back, which phases ran and which tracker methods were used.
detect_time_real_optimized(t, fidx, fast, glob) ==
    LET valid == has_valid_roi(t, fidx)
        fastHit == valid /\ fast # NoHit
        t1 == IF ~valid THEN t
              ELSE IF fastHit THEN update_roi(t, fast.bbox, fidx, TRUE)
              ELSE update_roi(t, t.roi, fidx, FALSE)
        ops1 == IF ~valid THEN << >>
                ELSE IF fastHit THEN << "update_roi_ok" >>
                ELSE << "update_roi_fail" >>
    IN  IF fastHit
        THEN [ tracker |-> t1, roi |-> fast.bbox, time_str |-> fast.time_str,
               fast_tried |-> TRUE, global_tried |-> FALSE, ops |-> ops1 ]
        ELSE IF glob # NoHit
        THEN [ tracker |-> establish_roi(t1, glob.bbox, fidx),
               roi |-> glob.bbox, time_str |-> glob.time_str,
               fast_tried |-> valid, global_tried |-> TRUE,
               ops |-> Append(ops1, "establish_roi") ]
        ELSE [ tracker |-> t1, roi |-> NoneRoi, time_str |-> NoLabel,
               fast_tried |-> valid, global_tried |-> TRUE, ops |-> ops1 ]

\* A phase that does not run has no outcome: the fast track runs only when
\* has_valid_roi, the global search only when the fast track did not return.
FastOutcomes(t, fidx) ==
    IF has_valid_roi(t, fidx) THEN Outcomes ELSE { NoHit }
GlobalOutcomes(t, fidx, fast) ==
    IF has_valid_roi(t, fidx) /\ fast # NoHit THEN { NoHit } ELSE Outcomes

\* Number of update_roi(success=False) calls since the last success
\* (update_roi(success=True) or establish_roi), after the calls in ops.
RECURSIVE FailRunAfter(_, _)
FailRunAfter(n, ops) ==
    IF ops = << >> THEN n
    ELSE FailRunAfter(IF Head(ops) = "update_roi_fail" THEN n + 1 ELSE 0, Tail(ops))

\* --------------------------------------------------------- AnomalyDetector
PHYSICAL_LIMIT_MS == 10000      \* abs(delay_ms) > 10000
NEGATIVE_LIMIT_MS == -5000      \* delay_ms < -5000
JUMP_MIN_THRESHOLD_MS == 500    \* max(500, abs(delta_app) * 2.0)
REGRESSION_TOLERANCE_MS == 1000 \* tolerance in check_detector_b
NORMAL_FRAMES_MAX == 100
NORMAL_DELAYS_MAX == 500
STAT_MIN_SAMPLES == 30
STAT_PERIOD == 30               \* frame_idx % 30 == 0 in the worker
CONFIG_HARD_DELAY_MAX_MS == 10000   \* ANOMALY_DETECTION['hard_delay_max_ms']
DEFAULT_HARD_DELAY_MAX_MS == 3000   \* AnomalyDetector.__init__ default

\* AnomalyDetector.__init__.  normal_frames is a Python dict: it is kept as
\* the sequence of its entries in insertion order.
NewDetector(hard_delay_max_ms) ==
    [ hard_delay_max_ms |-> hard_delay_max_ms,
      last_app_time_ms |-> NoneMs, last_real_time_ms |-> NoneMs,
      normal_delays |-> << >>, normal_frames |-> << >>,
      current_frame_idx |-> 0 ]

Accept == [ ok |-> TRUE, reason |-> "", recheck |-> FALSE ]

\* check_detector_a with the jump test in front of the hard bounds
check_detector_a_jumpfirst(d, frame_idx, app_time_ms, real_time_ms, delay_ms) ==
    LET delta_app == app_time_ms - d.last_app_time_ms
        delta_real == real_time_ms - d.last_real_time_ms
        threshold == Max(JUMP_MIN_THRESHOLD_MS, Abs(delta_app) * 2)
        increment_diff == Abs(delta_app - delta_real)
    IN  IF /\ d.last_app_time_ms # NoneMs /\ d.last_real_time_ms # NoneMs
           /\ increment_diff > threshold
        THEN [ ok |-> FALSE, reason |-> "clock_desync", recheck |-> TRUE ]
        ELSE IF delay_ms > d.hard_delay_max_ms
        THEN [ ok |-> FALSE, reason |-> "hard_cap", recheck |-> FALSE ]
        ELSE IF Abs(delay_ms) > PHYSICAL_LIMIT_MS
        THEN [ ok |-> FALSE, reason |-> "physical_limit", recheck |-> FALSE ]
        ELSE IF delay_ms < NEGATIVE_LIMIT_MS
        THEN [ ok |-> FALSE, reason |-> "negative_limit", recheck |-> FALSE ]
        ELSE Accept

\* check_detector_a whose threshold is a flat 500 ms
check_detector_a_flat(d, frame_idx, app_time_ms, real_time_ms, delay_ms) ==
    IF delay_ms > d.hard_delay_max_ms
    THEN [ ok |-> FALSE, reason |-> "hard_cap", recheck |-> FALSE ]
    ELSE IF Abs(delay_ms) > PHYSICAL_LIMIT_MS
    THEN [ ok |-> FALSE, reason |-> "physical_limit", recheck |-> FALSE ]
    ELSE IF delay_ms < NEGATIVE_LIMIT_MS
    THEN [ ok |-> FALSE, reason |-> "negative_limit", recheck |-> FALSE ]
    ELSE IF d.last_app_time_ms = NoneMs \/ d.last_real_time_ms = NoneMs
    THEN Accept
    ELSE LET delta_app == app_time_ms - d.last_app_time_ms
             delta_real == real_time_ms - d.last_real_time_ms
             increment_diff == Abs(delta_app - delta_real)
         IN  IF increment_diff > JUMP_MIN_THRESHOLD_MS
             THEN [ ok |-> FALSE, reason |-> "clock_desync", recheck |-> TRUE ]
             ELSE Accept

\* AnomalyDetector.check_detector_a: (is normal, reason, needs recheck)
check_detector_a(d, frame_idx, app_time_ms, real_time_ms, delay_ms) ==
    IF delay_ms > d.hard_delay_max_ms
    THEN [ ok |-> FALSE, reason |-> "hard_cap", recheck |-> FALSE ]
    ELSE IF Abs(delay_ms) > PHYSICAL_LIMIT_MS
    THEN [ ok |-> FALSE, reason |-> "physical_limit", recheck |-> FALSE ]
    ELSE IF delay_ms < NEGATIVE_LIMIT_MS
    THEN [ ok |-> FALSE, reason |-> "negative_limit", recheck |-> FALSE ]
    ELSE IF d.last_app_time_ms = NoneMs \/ d.last_real_time_ms = NoneMs
    THEN Accept
    ELSE LET delta_app == app_time_ms - d.last_app_time_ms
             delta_real == real_time_ms - d.last_real_time_ms
             threshold == Max(JUMP_MIN_THRESHOLD_MS, Abs(delta_app) * 2)
             increment_diff == Abs(delta_app - delta_real)
         IN  IF increment_diff > threshold
             THEN [ ok |-> FALSE, reason |-> "clock_desync", recheck |-> TRUE ]
             ELSE Accept

\* dict helpers over the insertion-ordered entries
Keys(nf) == { nf[i].idx : i \in 1..Len(nf) }
Entry(nf, idx) == nf[CHOOSE i \in 1..Len(nf) : nf[i].idx = idx]
SetMax(S) == CHOOSE m \in S : \A x \in S : x <= m
SetMin(S) == CHOOSE m \in S : \A x \in S : m <= x

\* sorted(S, reverse=True)[:n]: the n largest elements, largest first
RECURSIVE SortedDescTake(_, _)
SortedDescTake(S, n) ==
    IF S = {} \/ n = 0 THEN << >>
    ELSE LET m == SetMax(S) IN << m >> \o SortedDescTake(S \ { m }, n - 1)

\* the loop of check_detector_b over prev_frames, first regression wins
RECURSIVE RegressionScan(_, _, _)
RegressionScan(nf, prev_frames, real_time_ms) ==
    IF prev_frames = << >>
    THEN [ ok |-> TRUE, reason |-> "", prev_idx |-> -1 ]
    ELSE IF real_time_ms < Entry(nf, Head(prev_frames)).real_time - REGRESSION_TOLERANCE_MS
    THEN [ ok |-> FALSE, reason |-> "time_regression", prev_idx |-> Head(prev_frames) ]
    ELSE RegressionScan(nf, Tail(prev_frames), real_time_ms)

\* check_detector_b that takes the two most recently inserted entries
check_detector_b_insertion(d, frame_idx, real_time_ms) ==
    LET nf == d.normal_frames
        n == Len(nf)
        last2 == IF n = 0 THEN << >>
                 ELSE IF n = 1 THEN << nf[1].idx >>
                 ELSE << nf[n].idx, nf[n - 1].idx >>
    IN  RegressionScan(nf, last2, real_time_ms)

\* check_detector_b without the tolerance
check_detector_b_notolerance(d, frame_idx, real_time_ms) ==
    LET prev_frames ==
            SortedDescTake({ idx \in Keys(d.normal_frames) : idx < frame_idx }, 2)
    IN  RegressionScan(d.normal_frames, prev_frames,
                       real_time_ms - REGRESSION_TOLERANCE_MS)

\* AnomalyDetector.check_detector_b: (is normal, reason)
check_detector_b(d, frame_idx, real_time_ms) ==
    LET prev_frames ==
            SortedDescTake({ idx \in Keys(d.normal_frames) : idx < frame_idx }, 2)
    IN  RegressionScan(d.normal_frames, prev_frames, real_time_ms)

\* del seq[i]
RemoveAt(seq, i) == SubSeq(seq, 1, i - 1) \o SubSeq(seq, i + 1, Len(seq))

\* AnomalyDetector.add_normal_frame
add_normal_frame(d, frame_idx, app_time_ms, real_time_ms) ==
    LET e == [ idx |-> frame_idx, app_time |-> app_time_ms, real_time |-> real_time_ms ]
        nf == d.normal_frames
        nf1 == IF frame_idx \in Keys(nf)
               THEN [ i \in 1..Len(nf) |-> IF nf[i].idx = frame_idx THEN e ELSE nf[i] ]
               ELSE Append(nf, e)
        nf2 == IF Len(nf1) > NORMAL_FRAMES_MAX
               THEN RemoveAt(nf1, CHOOSE i \in 1..Len(nf1) : nf1[i].idx = SetMin(Keys(nf1)))
               ELSE nf1
    IN  [ d EXCEPT !.normal_frames = nf2 ]

\* update_frame that advances only last_app_time_ms
update_frame_stalereal(d, frame_idx, app_time_ms, real_time_ms) ==
    add_normal_frame(
        [ d EXCEPT !.last_app_time_ms = app_time_ms,
                   !.current_frame_idx = frame_idx ],
        frame_idx, app_time_ms, real_time_ms)

\* AnomalyDetector.update_frame
update_frame(d, frame_idx, app_time_ms, real_time_ms) ==
    add_normal_frame(
        [ d EXCEPT !.last_app_time_ms = app_time_ms,
                   !.last_real_time_ms = real_time_ms,
                   !.current_frame_idx = frame_idx ],
        frame_idx, app_time_ms, real_time_ms)

\* add_normal_delay that keeps the first NORMAL_DELAYS_MAX values
add_normal_delay_keepfirst(d, delay_ms) ==
    LET nd == Append(d.normal_delays, delay_ms) IN
    [ d EXCEPT !.normal_delays =
        IF Len(nd) > NORMAL_DELAYS_MAX THEN SubSeq(nd, 1, NORMAL_DELAYS_MAX) ELSE nd ]

\* AnomalyDetector.add_normal_delay
add_normal_delay(d, delay_ms) ==
    LET nd == Append(d.normal_delays, delay_ms) IN
    [ d EXCEPT !.normal_delays =
        IF Len(nd) > NORMAL_DELAYS_MAX
        THEN SubSeq(nd, Len(nd) - NORMAL_DELAYS_MAX + 1, Len(nd))
        ELSE nd ]

\* sorted(seq)[k - 1]: the k-th smallest value of a non-empty seq
KthSmallest(seq, k) ==
    CHOOSE v \in { seq[i] : i \in 1..Len(seq) } :
        /\ Cardinality({ i \in 1..Len(seq) : seq[i] < v }) < k
        /\ Cardinality({ i \in 1..Len(seq) : seq[i] <= v }) >= k

\* 2 * statistics.median(seq) for a non-empty seq of integers (the median of
\* an even number of values is the mean of the two middle ones)
Median2(seq) ==
    LET n == Len(seq)
    IN  IF n % 2 = 1 THEN 2 * KthSmallest(seq, (n + 1) \div 2)
        ELSE KthSmallest(seq, n \div 2) + KthSmallest(seq, n \div 2 + 1)

\* AnomalyDetector.check_statistical: (is normal, reason).  With
\* dev2 = 2*|delay - median| and mad4 = 4*MAD, mad < 0.01 is mad4 = 0 and
\* |0.6745 * (delay - median) / mad| > 5.0 is
\*   6745 * dev2 > 1000          when the MAD is floored to 0.01
\*   1349 * dev2 > 5000 * mad4   otherwise.
check_statistical(d, delay_ms) ==
    IF Len(d.normal_delays) < STAT_MIN_SAMPLES
    THEN [ ok |-> TRUE, reason |-> "" ]
    ELSE LET median2 == Median2(d.normal_delays)
             deviations2 == [ i \in 1..Len(d.normal_delays) |->
                                Abs(2 * d.normal_delays[i] - median2) ]
             mad4 == Median2(deviations2)
             dev2 == Abs(2 * delay_ms - median2)
             outlier == IF mad4 = 0 THEN 6745 * dev2 > 1000
                        ELSE 1349 * dev2 > 5000 * mad4
         IN  IF outlier THEN [ ok |-> FALSE, reason |-> "statistical" ]
             ELSE [ ok |-> TRUE, reason |-> "" ]

\* ------------------------------------------------------------------ state
VARIABLES
    roi_tracker,        \* the worker's ROITracker
    anomaly_detector,   \* the worker's AnomalyDetector
    results,            \* the frame records appended so far
    frame_idx,          \* frame number of the current / last call
    frame_step,         \* sampling interval of the run
    call,               \* the last operation: its name, arguments and result
    fail_run,           \* history: failed tracker updates since the last success
    ncalls,             \* history: operations performed so far
    monitor             \* the NetworkMonitor object, its threads and its caller

vars == << roi_tracker, anomaly_detector, results, frame_idx, frame_step,
          call, fail_run, ncalls, monitor >>

\* no NetworkMonitor has been constructed
NoMonitor == [ running |-> FALSE ]

NoCall == [ op |-> "none" ]
FrameSteps == { 1, 101 }

\* ------------------------------------------- ROITracker, method by method
InitTracker ==
    /\ roi_tracker = NewTracker
    /\ anomaly_detector = NewDetector(CONFIG_HARD_DELAY_MAX_MS)
    /\ results = << >>
    /\ frame_idx = 0
    /\ frame_step = 1
    /\ call = NoCall
    /\ fail_run = 0
    /\ monitor = NoMonitor
    /\ ncalls = 0

EstablishRoi ==
    /\ ncalls < MaxCalls
    /\ \E r \in Rois, f \in FrameIdxs :
         /\ roi_tracker' = establish_roi(roi_tracker, r, f)
         /\ call' = [ op |-> "establish_roi", before |-> roi_tracker, roi |-> r, frame |-> f ]
    /\ fail_run' = 0
    /\ ncalls' = ncalls + 1
    /\ UNCHANGED << anomaly_detector, results, frame_idx, frame_step, monitor >>

UpdateRoi ==
    /\ ncalls < MaxCalls
    /\ \E r \in Rois, f \in FrameIdxs, success \in BOOLEAN :
         /\ roi_tracker' = update_roi(roi_tracker, r, f, success)
         /\ call' = [ op |-> IF success THEN "update_roi_ok" ELSE "update_roi_fail",
                      before |-> roi_tracker ]
         /\ fail_run' = IF success THEN 0 ELSE fail_run + 1
    /\ ncalls' = ncalls + 1
    /\ UNCHANGED << anomaly_detector, results, frame_idx, frame_step, monitor >>

UpdateHeldRoi ==
    /\ roi_tracker.roi # NoneRoi
    /\ UpdateRoi

ResetRoi ==
    /\ ncalls < MaxCalls
    /\ roi_tracker' = reset(roi_tracker)
    /\ call' = [ op |-> "reset", before |-> roi_tracker ]
    /\ ncalls' = ncalls + 1
    /\ UNCHANGED << anomaly_detector, results, frame_idx, frame_step, monitor, fail_run >>

NextTracker == EstablishRoi \/ UpdateRoi \/ ResetRoi
SpecTracker == InitTracker /\ [][NextTracker]_vars

NextHeld == EstablishRoi \/ UpdateHeldRoi
SpecHeld == InitTracker /\ [][NextHeld]_vars

\* --------------------------- detect_time_real_optimized, call after call
InitDetect ==
    /\ roi_tracker = NewTracker
    /\ anomaly_detector = NewDetector(CONFIG_HARD_DELAY_MAX_MS)
    /\ results = << >>
    /\ frame_idx = 0
    /\ frame_step \in FrameSteps
    /\ call = NoCall
    /\ fail_run = 0
    /\ monitor = NoMonitor
    /\ ncalls = 0

DetectCallAt(f) ==
    /\ ncalls < MaxCalls
    /\ \E fast \in FastOutcomes(roi_tracker, f) :
       \E glob \in GlobalOutcomes(roi_tracker, f, fast) :
         LET r == detect_time_real_optimized(roi_tracker, f, fast, glob) IN
         /\ roi_tracker' = r.tracker
         /\ call' = [ op |-> "detect_time_real_optimized", frame |-> f,
                      valid_before |-> has_valid_roi(roi_tracker, f),
                      roi |-> r.roi, time_str |-> r.time_str,
                      fast_tried |-> r.fast_tried, global_tried |-> r.global_tried,
                      ops |-> r.ops ]
         /\ fail_run' = FailRunAfter(fail_run, r.ops)
    /\ frame_idx' = f
    /\ ncalls' = ncalls + 1
    /\ UNCHANGED << anomaly_detector, results, frame_step, monitor >>

\* first recognition of the next sampled frame
DetectNextFrame ==
    DetectCallAt(IF call = NoCall THEN 0 ELSE frame_idx + frame_step)

\* second recognition of the same frame (the worker's recheck)
DetectSameFrame ==
    /\ call # NoCall
    /\ DetectCallAt(frame_idx)

NextDetect == DetectNextFrame \/ DetectSameFrame
SpecDetect == InitDetect /\ [][NextDetect]_vars

\* --------------------------------------- AnomalyDetector, method by method
HardCaps == { DEFAULT_HARD_DELAY_MAX_MS, CONFIG_HARD_DELAY_MAX_MS, 20000 }
DetFrames == { 10, 11, 12, 13 }
DetAppMs == { 0, 1000, 12000, 25000 }
DetRealMs == { 0, 100, 500, 1000, 4000, 5000, 6000 }
\* (app_time_ms, real_time_ms) pairs handed to update_frame
PriorPairs == { << 0, 0 >>, << 1000, 500 >>, << 12000, 6000 >> }
\* (app_time_ms, real_time_ms) pairs of frames that reach the Detector B stage
StagePairs == { << 4000, 4000 >>, << 5000, 5000 >>, << 6000, 6000 >> }

InitDetector ==
    /\ roi_tracker = NewTracker
    /\ \E h \in HardCaps : anomaly_detector = NewDetector(h)
    /\ results = << >>
    /\ frame_idx = 0
    /\ frame_step = 1
    /\ call = NoCall
    /\ fail_run = 0
    /\ monitor = NoMonitor
    /\ ncalls = 0

\* check_detector_a on the next frame; the detector is not modified
CheckDetectorA ==
    /\ \E app \in DetAppMs, real \in DetRealMs :
         LET f == anomaly_detector.current_frame_idx + 1 IN
         call' = [ op |-> "check_detector_a", frame |-> f,
                   app_time_ms |-> app, real_time_ms |-> real,
                   delay_ms |-> app - real,
                   ret |-> check_detector_a(anomaly_detector, f, app, real, app - real) ]
    /\ UNCHANGED << roi_tracker, anomaly_detector, results, frame_idx, frame_step, monitor,
                    fail_run, ncalls >>

UpdateFramePrior ==
    /\ \E f \in { 10, 11 }, p \in PriorPairs :
         /\ anomaly_detector' = update_frame(anomaly_detector, f, p[1], p[2])
         /\ call' = [ op |-> "update_frame", frame |-> f,
                      app_time_ms |-> p[1], real_time_ms |-> p[2] ]
    /\ UNCHANGED << roi_tracker, results, frame_idx, frame_step, monitor, fail_run, ncalls >>

NextDetectorA == CheckDetectorA \/ UpdateFramePrior
SpecDetectorA == InitDetector /\ [][NextDetectorA]_vars

\* Detector B stage that leaves error_reason as it was on a rejection
detector_b_stage_keepreason(d, frame_idx_, app_time_ms, real_time_ms, status, error_reason) ==
    LET b == check_detector_b(d, frame_idx_, real_time_ms) IN
    IF ~b.ok
    THEN [ detector |-> d, status |-> "wrong", error_reason |-> error_reason,
           b |-> b, updated |-> FALSE ]
    ELSE [ detector |-> update_frame(d, frame_idx_, app_time_ms, real_time_ms),
           status |-> status, error_reason |-> error_reason,
           b |-> b, updated |-> TRUE ]

\* Detector B stage of the frame loop for a frame whose status is "ok" or
\* "ok_rechecked": regression check, then "wrong" or update_frame.
detector_b_stage(d, frame_idx_, app_time_ms, real_time_ms, status, error_reason) ==
    LET b == check_detector_b(d, frame_idx_, real_time_ms) IN
    IF ~b.ok
    THEN [ detector |-> d, status |-> "wrong", error_reason |-> b.reason,
           b |-> b, updated |-> FALSE ]
    ELSE [ detector |-> update_frame(d, frame_idx_, app_time_ms, real_time_ms),
           status |-> status, error_reason |-> error_reason,
           b |-> b, updated |-> TRUE ]

DetectorBStage ==
    /\ \E f \in DetFrames, p \in StagePairs :
         LET r == detector_b_stage(anomaly_detector, f, p[1], p[2], "ok", "") IN
         /\ anomaly_detector' = r.detector
         /\ call' = [ op |-> "detector_b_stage", frame |-> f,
                      app_time_ms |-> p[1], real_time_ms |-> p[2],
                      ret |-> r.b, status |-> r.status,
                      error_reason |-> r.error_reason ]
    /\ UNCHANGED << roi_tracker, results, frame_idx, frame_step, monitor, fail_run, ncalls >>

\* update_frame called directly, in any frame order
UpdateFrameAny ==
    /\ \E f \in DetFrames, p \in StagePairs :
         /\ anomaly_detector' = update_frame(anomaly_detector, f, p[1], p[2])
         /\ call' = [ op |-> "update_frame", frame |-> f,
                      app_time_ms |-> p[1], real_time_ms |-> p[2] ]
    /\ UNCHANGED << roi_tracker, results, frame_idx, frame_step, monitor, fail_run, ncalls >>

NextDetectorB == DetectorBStage \/ UpdateFrameAny
SpecDetectorB == InitTracker /\ [][NextDetectorB]_vars

\* ------------------------------------ AnalysisWorker.analyze_video (loop)
NoDelay == << >>        \* delay_ms = None; a present delay d is << d >>

\* Python truth value of an Optional[int]: None and 0 are false
Truthy(ms) == ms # NoneMs /\ ms # 0

\* parse_time_to_ms(s) if s else None
ParseOrNone(time_str) ==
    IF time_str # NoLabel THEN parse_time_to_ms(time_str) ELSE NoneMs

\* the dict appended to results (video_time_s = frame_idx / fps is left out)
FrameRecord(f, app_time_str, app_time_ms, real_time_str, delay_ms, status, error_reason) ==
    [ frame_idx |-> f, app_time_str |-> app_time_str, app_time_ms |-> app_time_ms,
      real_time_str |-> real_time_str, delay_ms |-> delay_ms,
      status |-> status, error_reason |-> error_reason ]

NotRun == [ ok |-> TRUE, reason |-> "not_run", recheck |-> FALSE ]

\* recheck on every Detector A failure
recheck_wanted_always(a) == ~a.ok

\* "if not is_normal_a and need_recheck"
recheck_wanted(a) == ~a.ok /\ a.recheck

\* "if real_time_ms_recheck and real_time_ms_recheck != real_time_ms"
recheck_adopted(real_time_ms_recheck, real_time_ms) ==
    Truthy(real_time_ms_recheck) /\ real_time_ms_recheck # real_time_ms

\* One iteration of the frame loop for the sampled frame f: T_app read,
\* T_real read, parsing, Detector A (with the recheck), the statistical
\* check, Detector B and the record.  fast1/glob1 are the outcomes of the
\* first T_real recognition, fast2/glob2 those of the recheck.
analyze_frame(t, d, f, app_time_str, fast1, glob1, fast2, glob2) ==
    LET r1 == detect_time_real_optimized(t, f, fast1, glob1)
        app_time_ms == ParseOrNone(app_time_str)
        real_time_ms == ParseOrNone(r1.time_str)
        base == [ tracker |-> r1.tracker, detector |-> d, ops |-> r1.ops,
                  real_calls |-> 1, a |-> NotRun, a_ran |-> FALSE,
                  first_real_ms |-> real_time_ms, recheck_ms |-> NoneMs,
                  final_real_ms |-> real_time_ms,
                  stat_ran |-> FALSE, b_ran |-> FALSE, updated |-> FALSE ]
    IN  IF app_time_ms = NoneMs
        THEN base @@
             [ record |-> FrameRecord(f, app_time_str, app_time_ms, r1.time_str,
                                      NoDelay, "app_fail", "app_fail") ]
        ELSE IF real_time_ms = NoneMs
        THEN base @@
             [ record |-> FrameRecord(f, app_time_str, app_time_ms, r1.time_str,
                                      NoDelay, "real_fail", "real_fail") ]
        ELSE
        LET delay_ms == app_time_ms - real_time_ms
            a == check_detector_a(d, f, app_time_ms, real_time_ms, delay_ms)
        IN  IF recheck_wanted(a)
            THEN LET r2 == detect_time_real_optimized(r1.tracker, f, fast2, glob2)
                     real_time_ms_recheck == ParseOrNone(r2.time_str)
                     adopt == recheck_adopted(real_time_ms_recheck, real_time_ms)
                     real_str2 == IF adopt THEN r2.time_str ELSE r1.time_str
                     real_ms2 == IF adopt THEN real_time_ms_recheck ELSE real_time_ms
                     delay2 == app_time_ms - real_ms2
                     st == detector_b_stage(d, f, app_time_ms, real_ms2,
                              IF adopt THEN "ok_rechecked" ELSE "ok",
                              IF adopt THEN "recheck_corrected" ELSE "")
                 IN  [ base EXCEPT !.tracker = r2.tracker, !.detector = st.detector,
                                   !.ops = r1.ops \o r2.ops, !.real_calls = 2,
                                   !.a = a, !.a_ran = TRUE,
                                   !.recheck_ms = real_time_ms_recheck,
                                   !.final_real_ms = real_ms2,
                                   !.b_ran = TRUE, !.updated = st.updated ] @@
                     [ record |-> FrameRecord(f, app_time_str, app_time_ms, real_str2,
                                              << delay2 >>, st.status, st.error_reason) ]
            ELSE IF ~a.ok
            THEN [ base EXCEPT !.a = a, !.a_ran = TRUE ] @@
                 [ record |-> FrameRecord(f, app_time_str, app_time_ms, r1.time_str,
                                          << delay_ms >>, "wrong", a.reason) ]
            ELSE
            LET d1 == add_normal_delay(d, delay_ms)
                stat_due == f % STAT_PERIOD = 0 /\ f > 0
                stat == IF stat_due THEN check_statistical(d1, delay_ms)
                        ELSE [ ok |-> TRUE, reason |-> "" ]
            IN  IF ~stat.ok
                THEN [ base EXCEPT !.detector = d1, !.a = a, !.a_ran = TRUE,
                                   !.stat_ran = TRUE ] @@
                     [ record |-> FrameRecord(f, app_time_str, app_time_ms, r1.time_str,
                                              << delay_ms >>, "wrong", stat.reason) ]
                ELSE
                LET st == detector_b_stage(d1, f, app_time_ms, real_time_ms, "ok", "") IN
                [ base EXCEPT !.detector = st.detector, !.a = a, !.a_ran = TRUE,
                              !.stat_ran = stat_due, !.b_ran = TRUE,
                              !.updated = st.updated ] @@
                [ record |-> FrameRecord(f, app_time_str, app_time_ms, r1.time_str,
                                         << delay_ms >>, st.status, st.error_reason) ]

\* Outcomes of a search phase in the frame loop (one region)
PipeHits == [ bbox : { << 10, 10, 50, 20 >> }, time_str : Labels ]
PipeOutcomes == PipeHits \cup { NoHit }
PipeFast(t, f) == IF has_valid_roi(t, f) THEN PipeOutcomes ELSE { NoHit }
PipeGlobal(t, f, fast) ==
    IF has_valid_roi(t, f) /\ fast # NoHit THEN { NoHit } ELSE PipeOutcomes

\* the recheck runs only when Detector A asked for it
NeedsRecheck(t, d, f, app_time_str, fast1, glob1) ==
    LET app_time_ms == ParseOrNone(app_time_str)
        real_time_ms == ParseOrNone(detect_time_real_optimized(t, f, fast1, glob1).time_str)
        a == check_detector_a(d, f, app_time_ms, real_time_ms, app_time_ms - real_time_ms)
    IN  app_time_ms # NoneMs /\ real_time_ms # NoneMs /\ recheck_wanted(a)

\* The loop state after n frames 0..n-1 (frame_step 1) that all show the
\* same T_app and T_real label, starting from st.
SteadyLabel == << 0, 0, 5, 0 >>
SteadyHit == [ bbox |-> << 10, 10, 50, 20 >>, time_str |-> SteadyLabel ]
\* one steady frame: the loop state after analyze_frame on frame st.frame_idx
SteadyStep(st) ==
    { [ tracker |-> r.tracker, detector |-> r.detector,
        results |-> Append(st.results, r.record),
        frame_idx |-> st.frame_idx + 1 ] :
      r \in { analyze_frame(st.tracker, st.detector, st.frame_idx, SteadyLabel,
                            SteadyHit, SteadyHit, SteadyHit, SteadyHit) } }

\* the set holding the loop state after n steady frames from a state of S
\* (the run is split in halves, each half finished before the next starts)
RECURSIVE SteadyRun(_, _)
SteadyRun(S, n) ==
    IF n = 0 THEN S
    ELSE IF n = 1 THEN UNION { SteadyStep(st) : st \in S }
    ELSE UNION { SteadyRun({ mid }, n - (n \div 2)) : mid \in SteadyRun(S, n \div 2) }

FreshState(h) ==
    [ tracker |-> NewTracker, detector |-> NewDetector(h),
      results |-> << >>, frame_idx |-> 0 ]
PipeCaps == { DEFAULT_HARD_DELAY_MAX_MS, CONFIG_HARD_DELAY_MAX_MS }

\* Start of the frame loop, or the loop after STAT_PERIOD steady frames
Init ==
    \E h \in PipeCaps, fs \in FrameSteps, warm \in BOOLEAN :
    \E st \in (IF warm THEN SteadyRun({ FreshState(h) }, STAT_PERIOD)
                ELSE { FreshState(h) }) :
        /\ warm => fs = 1
        /\ roi_tracker = st.tracker
        /\ anomaly_detector = st.detector
        /\ results = st.results
        /\ frame_idx = st.frame_idx
        /\ frame_step = fs
        /\ call = NoCall
        /\ fail_run = 0
        /\ monitor = NoMonitor
        /\ ncalls = 0

\* Outcomes of a search phase when the recognizer can return the outcomes O
FastOf(O, t, f) == IF has_valid_roi(t, f) THEN O ELSE { NoHit }
GlobalOf(O, t, f, fast) ==
    IF has_valid_roi(t, f) /\ fast # NoHit THEN { NoHit } ELSE O

\* The effect of one iteration of the frame loop on frame_idx, given what
\* each recognition attempt returned; raised names the attempts in which the
\* recognizer raised.
FrameApplyTo(app_time_str, fast1, glob1, fast2, glob2, raised, next_idx) ==
    /\ \E r \in { analyze_frame(roi_tracker, anomaly_detector, frame_idx,
                                 app_time_str, fast1, glob1, fast2, glob2) } :
           /\ roi_tracker' = r.tracker
           /\ anomaly_detector' = r.detector
           /\ results' = Append(results, r.record)
           /\ fail_run' = FailRunAfter(fail_run, r.ops)
           /\ call' = [ op |-> "analyze_frame", frame |-> frame_idx,
                        real_calls |-> r.real_calls, a_ran |-> r.a_ran, a |-> r.a,
                        first_real_ms |-> r.first_real_ms,
                        recheck_ms |-> r.recheck_ms,
                        final_real_ms |-> r.final_real_ms,
                        stat_ran |-> r.stat_ran, b_ran |-> r.b_ran,
                        updated |-> r.updated, ops |-> r.ops, raised |-> raised ]
    /\ frame_idx' = next_idx
    /\ ncalls' = ncalls + 1
    /\ UNCHANGED << frame_step, monitor >>

\* the same with the frames that are not sampled skipped in the same step
FrameApply(app_time_str, fast1, glob1, fast2, glob2, raised) ==
    FrameApplyTo(app_time_str, fast1, glob1, fast2, glob2, raised,
                 frame_idx + frame_step)

\* One iteration of the frame loop on frame_idx, with the T_app label drawn
\* from AppLabels and every T_real recognition outcome drawn from O.
FrameStep(AppLabels, O) ==
    \E app_time_str \in AppLabels :
    \E fast1 \in FastOf(O, roi_tracker, frame_idx) :
    \E glob1 \in GlobalOf(O, roi_tracker, frame_idx, fast1) :
    \E recheck \in { NeedsRecheck(roi_tracker, anomaly_detector, frame_idx,
                                   app_time_str, fast1, glob1) } :
    \E t1 \in { detect_time_real_optimized(roi_tracker, frame_idx,
                                           fast1, glob1).tracker } :
    \E fast2 \in (IF recheck THEN FastOf(O, t1, frame_idx) ELSE { NoHit }) :
    \E glob2 \in (IF recheck THEN GlobalOf(O, t1, frame_idx, fast2) ELSE { NoHit }) :
        FrameApply(app_time_str, fast1, glob1, fast2, glob2, { })

\* frames 0 .. Len(results) - ncalls - 1 were analysed before the start state
AnalyzeFrame ==
    /\ ncalls < (IF Len(results) > ncalls THEN MaxWarmFrames ELSE MaxFrames)
    /\ FrameStep(Labels \cup { NoLabel }, PipeOutcomes)

Next == AnalyzeFrame
Spec == Init /\ [][Next]_vars

\* ------------------------------------------------------------------ claims
IsDetect(c) == c.op = "detect_time_real_optimized"
ProbeFrames == FrameIdxs \cup { frame_idx, frame_idx + frame_step }
TrackerEmpty(t) == t.roi = NoneRoi /\ t.roi_confidence = 0 /\ t.consecutive_fails = 0

\* C1: once three tracker updates in a row have failed since the region was
\* established, has_valid_roi is false for every frame number, and the next
\* detect_time_real_optimized call makes no fast-track attempt and runs the
\* global search.
C1_ThreeFailsForceGlobal ==
    /\ [](fail_run = MAX_FAILS =>
            \A f \in ProbeFrames : ~has_valid_roi(roi_tracker, f))
    /\ [][ (fail_run = MAX_FAILS /\ ncalls' = ncalls + 1)
            => (IsDetect(call') /\ ~call'.fast_tried /\ call'.global_tried) ]_vars

C1_Witness ==
    /\ fail_run = MAX_FAILS
    /\ IsDetect(call) /\ ~call.fast_tried /\ call.global_tried

\* C2: after any sequence of establish_roi, update_roi and reset calls the
\* confidence lies in [0, 1].
C2_ConfidenceClamped ==
    /\ roi_tracker.roi_confidence >= 0
    /\ roi_tracker.roi_confidence <= CONF_ONE

C2_Witness ==
    /\ call.op = "update_roi_ok"
    /\ call.before.roi_confidence = CONF_ONE
    /\ roi_tracker.roi_confidence = CONF_ONE

\* C3: when update_roi is only called while a region is held, a held region
\* implies consecutive_fails < 3 and confidence >= 0.3, and a failed update
\* that brings consecutive_fails to 3 or the confidence below 0.3 leaves the
\* tracker empty (no region, confidence 0, consecutive_fails 0).
C3_HeldOnlyWhileHealthy ==
    /\ roi_tracker.roi # NoneRoi =>
         /\ roi_tracker.consecutive_fails < MAX_FAILS
         /\ roi_tracker.roi_confidence >= CONF_RESET
    /\ ( /\ call.op = "update_roi_fail"
         /\ \/ call.before.consecutive_fails + 1 >= MAX_FAILS
            \/ call.before.roi_confidence - CONF_DOWN < CONF_RESET )
       => TrackerEmpty(roi_tracker)

C3_Witness ==
    /\ call.op = "update_roi_fail"
    /\ call.before.consecutive_fails = MAX_FAILS - 1
    /\ call.before.roi_confidence - CONF_DOWN >= CONF_RESET
    /\ TrackerEmpty(roi_tracker)

IsFrame(c) == c.op = "analyze_frame"
LastRecord == results[Len(results)]
HardReasons == { "hard_cap", "physical_limit", "negative_limit" }
AcceptedStatus == { "ok", "ok_rechecked" }
RejectedByB(rec) == rec.status = "wrong" /\ rec.error_reason = "time_regression"

\* |delta_app - delta_real| > max(500, 2 * |delta_app|) against the last accepted pair
JumpInconsistent(d, app_time_ms, real_time_ms) ==
    /\ d.last_app_time_ms # NoneMs
    /\ d.last_real_time_ms # NoneMs
    /\ Abs((app_time_ms - d.last_app_time_ms) - (real_time_ms - d.last_real_time_ms))
         > Max(JUMP_MIN_THRESHOLD_MS, 2 * Abs(app_time_ms - d.last_app_time_ms))

PassesHardBounds(d, delay_ms) ==
    /\ delay_ms <= d.hard_delay_max_ms
    /\ Abs(delay_ms) <= PHYSICAL_LIMIT_MS
    /\ delay_ms >= NEGATIVE_LIMIT_MS

\* C6: for a delay that passes the hard-bound step, check_detector_a asks for
\* a recheck exactly when a prior accepted pair exists and
\* |delta_app - delta_real| > max(500, 2*|delta_app|), and accepts otherwise;
\* with last pair (0, 0) the pair (1000, 100) is accepted; without a prior
\* pair the frame is accepted.
C6_JumpConsistency ==
    ( /\ call.op = "check_detector_a"
      /\ PassesHardBounds(anomaly_detector, call.delay_ms) )
    => /\ call.ret.recheck <=>
            JumpInconsistent(anomaly_detector, call.app_time_ms, call.real_time_ms)
       /\ call.ret.ok <=> ~call.ret.recheck
       /\ ( anomaly_detector.last_app_time_ms = NoneMs
            \/ anomaly_detector.last_real_time_ms = NoneMs ) => call.ret = Accept
       /\ ( /\ anomaly_detector.last_app_time_ms = 0
            /\ anomaly_detector.last_real_time_ms = 0
            /\ call.app_time_ms = 1000 /\ call.real_time_ms = 100 ) => call.ret = Accept

C6_Witness ==
    /\ call.op = "check_detector_a"
    /\ anomaly_detector.last_app_time_ms = 0
    /\ anomaly_detector.last_real_time_ms = 0
    /\ call.app_time_ms = 1000 /\ call.real_time_ms = 100
    /\ call.ret = Accept

\* C7 as stated: on a rechecked frame a second reading that differs from the
\* first replaces real_ms, the delay is recomputed from it and the status is
\* ok_rechecked; a second reading equal to the first keeps the first reading
\* with status ok; either way Detector B then runs (and may turn the status
\* into wrong).
C7_Original ==
    ( IsFrame(call) /\ call.real_calls = 2 )
    => LET rec == LastRecord
           first == call.first_real_ms
           second == call.recheck_ms
       IN  /\ call.b_ran
           /\ ( second # NoneMs /\ second # first )
              => /\ call.final_real_ms = second
                 /\ ParseOrNone(rec.real_time_str) = second
                 /\ rec.delay_ms = << rec.app_time_ms - second >>
                 /\ rec.status = "ok_rechecked" \/ RejectedByB(rec)
           /\ ( second = first )
              => /\ call.final_real_ms = first
                 /\ rec.delay_ms = << rec.app_time_ms - first >>
                 /\ rec.status = "ok" \/ RejectedByB(rec)

\* C8: a frame makes one T_real recognition, and a second one exactly when
\* Detector A asked for a recheck of the first reading; never a third.  The
\* step appends exactly one record, and that record carries the reading
\* chosen after the recheck.
C8_SingleRecheck ==
    [][ ncalls' = ncalls + 1
        => LET rec == results'[Len(results')]
               app == rec.app_time_ms
               first == call'.first_real_ms
           IN  /\ call'.real_calls \in { 1, 2 }
               /\ call'.real_calls = 2 <=>
                    /\ app # NoneMs /\ first # NoneMs
                    /\ check_detector_a(anomaly_detector, frame_idx, app, first,
                                        app - first).recheck
               /\ results' = Append(results, rec)
               /\ rec.frame_idx = frame_idx
               /\ ParseOrNone(rec.real_time_str) = call'.final_real_ms ]_vars

C8_Witness ==
    /\ IsFrame(call) /\ call.real_calls = 2
    /\ call.recheck_ms # NoneMs /\ call.final_real_ms = call.recheck_ms
    /\ call.recheck_ms # call.first_real_ms
    /\ RejectedByB(LastRecord)
    /\ JumpInconsistent(anomaly_detector, LastRecord.app_time_ms, call.final_real_ms)

\* the (at most) two accepted frames with the largest frame_idx below f
Recent2(nf, f) ==
    { i \in Keys(nf) : i < f /\ Cardinality({ j \in Keys(nf) : i < j /\ j < f }) < 2 }

\* C9: check_detector_b rejects exactly when real_ms < prev_real - 1000 for
\* one of the two accepted frames with the largest frame_idx below the
\* candidate, whatever the insertion order; a frame rejected at this stage
\* is recorded as wrong with the time-regression reason and the detector is
\* left as it was; {10: 5000, 12: 6000} rejects frame 13 with real 4000.
C9_RegressionAgainstRecent2 ==
    [][ call'.op = "detector_b_stage"
        => LET nf == anomaly_detector.normal_frames
               f == call'.frame
               real == call'.real_time_ms
               regressed == \E i \in Recent2(nf, f) :
                               real < Entry(nf, i).real_time - REGRESSION_TOLERANCE_MS
           IN  /\ ~call'.ret.ok <=> regressed
               /\ regressed => /\ call'.status = "wrong"
                               /\ call'.error_reason = "time_regression"
                               /\ anomaly_detector' = anomaly_detector
               /\ ~regressed => call'.status = "ok"
               /\ ( /\ Keys(nf) = { 10, 12 }
                    /\ Entry(nf, 10).real_time = 5000
                    /\ Entry(nf, 12).real_time = 6000
                    /\ f = 13 /\ real = 4000 ) => ~call'.ret.ok ]_vars

C9_Witness ==
    /\ call.op = "detector_b_stage"
    /\ Len(anomaly_detector.normal_frames) = 2
    /\ anomaly_detector.normal_frames[1].idx = 12
    /\ anomaly_detector.normal_frames[1].real_time = 6000
    /\ anomaly_detector.normal_frames[2].idx = 10
    /\ anomaly_detector.normal_frames[2].real_time = 5000
    /\ call.frame = 13 /\ call.real_time_ms = 4000
    /\ call.status = "wrong" /\ call.error_reason = "time_regression"

\* C10: update_frame runs for a frame exactly when its final status is ok or
\* ok_rechecked; any other frame leaves last_app_time_ms, last_real_time_ms
\* and normal_frames as they were, and an accepted frame leaves them at its
\* final app_ms / real_ms with the frame entered in normal_frames.
C10_UpdateOnlyOnAccept ==
    [][ ncalls' = ncalls + 1
        => LET rec == results'[Len(results')]
               accepted == rec.status \in AcceptedStatus
               d == anomaly_detector
               d2 == anomaly_detector'
           IN  /\ call'.updated <=> accepted
               /\ ~accepted =>
                    /\ d2.last_app_time_ms = d.last_app_time_ms
                    /\ d2.last_real_time_ms = d.last_real_time_ms
                    /\ d2.normal_frames = d.normal_frames
               /\ accepted =>
                    /\ d2.last_app_time_ms = rec.app_time_ms
                    /\ d2.last_real_time_ms = ParseOrNone(rec.real_time_str)
                    /\ d2.last_real_time_ms = call'.final_real_ms
                    /\ rec.frame_idx \in Keys(d2.normal_frames)
                    /\ Entry(d2.normal_frames, rec.frame_idx) =
                         [ idx |-> rec.frame_idx, app_time |-> rec.app_time_ms,
                           real_time |-> call'.final_real_ms ] ]_vars

C10_Witness ==
    /\ IsFrame(call) /\ call.updated
    /\ LastRecord.status = "ok_rechecked"
    /\ call.recheck_ms # call.first_real_ms
    /\ anomaly_detector.last_real_time_ms = call.recheck_ms
    /\ anomaly_detector.last_app_time_ms = LastRecord.app_time_ms

\* ------------------------------------------------ long runs (C11)
\* The frame loop after NORMAL_FRAMES_MAX or NORMAL_DELAYS_MAX steady frames,
\* when the next accepted frame makes a store overflow.
LongRuns == { NORMAL_FRAMES_MAX - 1, NORMAL_FRAMES_MAX, NORMAL_DELAYS_MAX }
InitLong ==
    \E n \in LongRuns :
    \E st \in SteadyRun({ FreshState(CONFIG_HARD_DELAY_MAX_MS) }, n) :
        /\ roi_tracker = st.tracker
        /\ anomaly_detector = st.detector
        /\ results = st.results
        /\ frame_idx = st.frame_idx
        /\ frame_step = 1
        /\ call = NoCall
        /\ fail_run = 0
        /\ monitor = NoMonitor
        /\ ncalls = 0
SpecLong == InitLong /\ [][Next]_vars

\* frame indices of the records with an accepted status
AcceptedIdx ==
    { results[i].frame_idx : i \in { j \in 1..Len(results) : results[j].status \in AcceptedStatus } }
\* the n largest elements of S
Largest(S, n) == { i \in S : Cardinality({ j \in S : j > i }) < n }
\* the last n elements of seq
LastN(seq, n) == IF Len(seq) > n THEN SubSeq(seq, Len(seq) - n + 1, Len(seq)) ELSE seq

\* C11: normal_frames never holds more than 100 entries and holds exactly
\* the accepted frames with the 100 largest frame indices; normal_delays
\* never holds more than 500 values, and each frame leaves it as the last
\* 500 of (the previous values followed by the delay the frame appended,
\* if it appended one), in that order.
C11_StoresBounded ==
    /\ [] ( /\ Len(anomaly_detector.normal_frames) <= NORMAL_FRAMES_MAX
            /\ Cardinality(Keys(anomaly_detector.normal_frames))
                 = Len(anomaly_detector.normal_frames)
            /\ Keys(anomaly_detector.normal_frames) = Largest(AcceptedIdx, NORMAL_FRAMES_MAX)
            /\ Len(anomaly_detector.normal_delays) <= NORMAL_DELAYS_MAX )
    /\ [][ ncalls' = ncalls + 1
           => LET rec == results'[Len(results')]
                  nd == anomaly_detector.normal_delays
                  appended == IF call'.a_ran /\ call'.a.ok
                              THEN Append(nd, rec.delay_ms[1]) ELSE nd
              IN  anomaly_detector'.normal_delays = LastN(appended, NORMAL_DELAYS_MAX) ]_vars

C11_Witness ==
    /\ IsFrame(call) /\ call.a_ran /\ call.a.ok /\ call.updated
    /\ Len(results) = NORMAL_DELAYS_MAX + 1
    /\ LastRecord.delay_ms # << 0 >>
    /\ Len(anomaly_detector.normal_delays) = NORMAL_DELAYS_MAX
    /\ anomaly_detector.normal_delays[NORMAL_DELAYS_MAX] = LastRecord.delay_ms[1]
    /\ Len(anomaly_detector.normal_frames) = NORMAL_FRAMES_MAX
    /\ Keys(anomaly_detector.normal_frames)
         = (NORMAL_DELAYS_MAX - NORMAL_FRAMES_MAX + 1)..NORMAL_DELAYS_MAX

\* ------------------------------------------------ end-to-end scenario (C12)
\* Three frames whose T_app labels are 10:00:00.000, 10:00:01.000 and
\* 10:00:00.500; each T_real recognition returns one of ScenarioReal or
\* nothing.
ScenarioApp == << << 10, 0, 0, 0 >>, << 10, 0, 1, 0 >>, << 10, 0, 0, 500 >> >>
ScenarioReal ==
    { << 10, 0, 0, 0 >>, << 10, 0, 1, 0 >>, << 10, 0, 0, 500 >>, << 9, 59, 59, 900 >> }
ScenarioOutcomes ==
    [ bbox : { << 10, 10, 50, 20 >> }, time_str : ScenarioReal ] \cup { NoHit }
InitScenario ==
    /\ roi_tracker = NewTracker
    /\ anomaly_detector = NewDetector(CONFIG_HARD_DELAY_MAX_MS)
    /\ results = << >>
    /\ frame_idx = 0
    /\ frame_step \in FrameSteps
    /\ call = NoCall
    /\ fail_run = 0
    /\ monitor = NoMonitor
    /\ ncalls = 0
ScenarioFrame ==
    /\ ncalls < Len(ScenarioApp)
    /\ FrameStep({ ScenarioApp[ncalls + 1] }, ScenarioOutcomes)
NextScenario == ScenarioFrame
SpecScenario == InitScenario /\ [][NextScenario]_vars

ScenarioDone ==
    /\ Len(results) = Len(ScenarioApp)
    /\ \A i \in 1..Len(results) : results[i].delay_ms # NoDelay
RealMsOf(rec) == ParseOrNone(rec.real_time_str)

\* C12 as stated: the three frames, all with both labels read, end as
\* ok, ok, wrong, the third with the time-regression reason.
C12_Original ==
    ScenarioDone
    => /\ results[1].status = "ok" /\ results[2].status = "ok"
       /\ RejectedByB(results[3])

\* C12 amended: with those T_app labels and the first two frames accepted,
\* the third frame is recorded as wrong for time regression only when its
\* T_real is more than 1000 ms below the T_real of the first or second
\* frame; when every frame's T_real equals its T_app the statuses are
\* ok, ok, ok.
C12_RegressionIsOnReal ==
    ( /\ ScenarioDone
      /\ results[1].status \in AcceptedStatus
      /\ results[2].status \in AcceptedStatus )
    => /\ RejectedByB(results[3])
          => \E i \in { 1, 2 } :
                RealMsOf(results[3]) < RealMsOf(results[i]) - REGRESSION_TOLERANCE_MS
       /\ ( \A i \in 1..3 : results[i].real_time_str = ScenarioApp[i] )
          => \A i \in 1..3 : results[i].status = "ok" /\ results[i].error_reason = ""

C12_Witness ==
    /\ ScenarioDone
    /\ \A i \in 1..3 : results[i].real_time_str = ScenarioApp[i]
    /\ \A i \in 1..3 : results[i].status = "ok"
    /\ anomaly_detector.last_app_time_ms = parse_time_to_ms(ScenarioApp[3])

\* C13 as stated: delay_ms = app_ms - real_ms when both labels are present;
\* otherwise delay_ms is absent and the status is app_fail when only T_app
\* is absent, real_fail when only T_real is absent, both_fail when both are.
C13_Original ==
    IsFrame(call)
    => LET rec == LastRecord
           app_absent == rec.app_time_ms = NoneMs
           real_absent == call.first_real_ms = NoneMs
       IN  /\ ( ~app_absent /\ ~real_absent )
              => rec.delay_ms = << rec.app_time_ms - call.final_real_ms >>
           /\ ( app_absent \/ real_absent ) => rec.delay_ms = NoDelay
           /\ ( app_absent /\ ~real_absent ) => rec.status = "app_fail"
           /\ ( ~app_absent /\ real_absent ) => rec.status = "real_fail"
           /\ ( app_absent /\ real_absent ) => rec.status = "both_fail"

RuleReasons == HardReasons \cup { "time_regression", "statistical" }
AllStatuses == { "ok", "ok_rechecked", "app_fail", "real_fail", "both_fail", "wrong" }

\* C14: every record's status is one of ok, ok_rechecked, app_fail,
\* real_fail, both_fail, wrong; a wrong record has a delay (both labels
\* parsed) and an error_reason naming the hard-bound, time-regression or
\* statistical rule; an ok record has an empty error_reason.
C14_StatusAndReason ==
    \A i \in 1..Len(results) :
        LET rec == results[i] IN
        /\ rec.status \in AllStatuses
        /\ rec.status = "wrong"
           => /\ rec.delay_ms # NoDelay
              /\ rec.app_time_ms # NoneMs /\ rec.real_time_str # NoLabel
              /\ rec.error_reason # "" /\ rec.error_reason \in RuleReasons
        /\ rec.status = "ok" => rec.error_reason = ""

C14_Witness ==
    /\ IsFrame(call) /\ call.stat_ran
    /\ LastRecord.status = "wrong" /\ LastRecord.error_reason = "statistical"
    /\ LastRecord.delay_ms # NoDelay
    /\ \E i \in 1..Len(results) : results[i].status = "ok"

\* ------------------------------------------------ recognizer faults (C15)
\* What one call of the recognition collaborator does inside an attempt: it
\* yields a label (hit), yields nothing (none), raises (raise), or yields an
\* incomplete label whose edge-expansion re-read raises (raise_reread).
FaultLabels == { << 0, 0, 0, 0 >>, << 0, 0, 5, 0 >> }
FaultHits == [ bbox : { << 10, 10, 50, 20 >> }, time_str : FaultLabels ]
Attempts ==
    [ kind : { "hit" }, hit : FaultHits ]
    \cup [ kind : { "none", "raise", "raise_reread" }, hit : { NoHit } ]
NotTried == [ kind |-> "none", hit |-> NoHit ]
Raises(a) == a.kind \in { "raise", "raise_reread" }

\* an attempt without any except clause: the exception leaves the attempt
try_except_bare(a) ==
    [ result |-> IF a.kind = "hit" THEN a.hit ELSE NoHit, escaped |-> Raises(a) ]

\* The try/except around every recognizer call (detect_time_in_region,
\* the fast track, each crop of the global search, the re-read): what the
\* caller sees of the attempt, and whether an exception escaped.
try_except(a) ==
    [ result |-> IF a.kind = "hit" THEN a.hit ELSE NoHit, escaped |-> FALSE ]

\* the crop loop of the global search: the first crop with a result wins
global_search(c1, c2, c3) ==
    IF try_except(c1).result # NoHit THEN try_except(c1).result
    ELSE IF try_except(c2).result # NoHit THEN try_except(c2).result
    ELSE try_except(c3).result

\* attempts of one detect_time_real_optimized call that can run on tracker t
FastAttempts(t, f) == IF has_valid_roi(t, f) THEN Attempts ELSE { NotTried }
CropAttempts(t, f, fast, earlier) ==
    IF (has_valid_roi(t, f) /\ try_except(fast).result # NoHit)
       \/ \E c \in earlier : try_except(c).result # NoHit
    THEN { NotTried } ELSE Attempts

InitFaults ==
    /\ roi_tracker = NewTracker
    /\ anomaly_detector = NewDetector(CONFIG_HARD_DELAY_MAX_MS)
    /\ results = << >>
    /\ frame_idx = 0
    /\ frame_step \in FrameSteps
    /\ call = NoCall
    /\ fail_run = 0
    /\ monitor = NoMonitor
    /\ ncalls = 0

\* One iteration of the frame loop in which any recognizer call may raise.
\* An exception that escapes its attempt leaves analyze_video: no record is
\* appended and the loop stops.
FaultFrame ==
    /\ ncalls < MaxFrames
    /\ call.op # "aborted"
    /\ \E app \in Attempts \ [ kind : { "raise_reread" }, hit : { NoHit } ] :
       \E f1 \in FastAttempts(roi_tracker, frame_idx) :
       \E c1 \in CropAttempts(roi_tracker, frame_idx, f1, { }) :
       \E c2 \in CropAttempts(roi_tracker, frame_idx, f1, { c1 }) :
       \E c3 \in CropAttempts(roi_tracker, frame_idx, f1, { c1, c2 }) :
       \E fast1 \in { try_except(f1).result } :
       \E glob1 \in { global_search(c1, c2, c3) } :
       \E recheck \in { NeedsRecheck(roi_tracker, anomaly_detector, frame_idx,
                                      try_except(app).result.time_str, fast1, glob1) } :
       \E t1 \in { detect_time_real_optimized(roi_tracker, frame_idx,
                                              fast1, glob1).tracker } :
       \E f2 \in (IF recheck THEN FastAttempts(t1, frame_idx) ELSE { NotTried }) :
       \E d1 \in (IF recheck THEN CropAttempts(t1, frame_idx, f2, { })
                   ELSE { NotTried }) :
         LET tried == [ app |-> app, fast |-> f1, crop1 |-> c1, crop2 |-> c2,
                        crop3 |-> c3, recheck_fast |-> f2, recheck_crop |-> d1 ]
             names == DOMAIN tried
         IN  IF \E n \in names : try_except(tried[n]).escaped
             THEN /\ call' = [ op |-> "aborted", frame |-> frame_idx ]
                  /\ ncalls' = ncalls + 1
                  /\ UNCHANGED << roi_tracker, anomaly_detector, results, frame_idx,
                                  frame_step, monitor, fail_run >>
             ELSE FrameApply(try_except(app).result.time_str, fast1, glob1,
                             try_except(f2).result, try_except(d1).result,
                             { n \in names : Raises(tried[n]) })
NextFaults == FaultFrame
SpecFaults == InitFaults /\ [][NextFaults]_vars

\* C15: whatever attempt of a frame the recognizer raises in, the frame
\* loop is not left: the step appends exactly one record for the frame and
\* moves to the next frame; the record is the one the frame gets when the
\* raising attempts return nothing instead (all attempts raising: T_app
\* absent); a raise in the fast track is recorded by update_roi as a failure.
C15_ExceptionsContained ==
    /\ [] ( call.op # "aborted" )
    /\ [][ ncalls' = ncalls + 1
           => /\ IsFrame(call')
              /\ Len(results') = Len(results) + 1
              /\ results'[Len(results')].frame_idx = frame_idx
              /\ SubSeq(results', 1, Len(results)) = results
              /\ frame_idx' = frame_idx + frame_step
              /\ "app" \in call'.raised => results'[Len(results')].status = "app_fail"
              /\ "fast" \in call'.raised
                 => /\ call'.ops # << >> /\ call'.ops[1] = "update_roi_fail"
                    /\ \/ TrackerEmpty(roi_tracker)
                       \/ has_valid_roi(roi_tracker, frame_idx)
              /\ ( { "crop1", "crop2", "crop3" } \subseteq call'.raised
                   /\ ~has_valid_roi(roi_tracker, frame_idx) )
                 => results'[Len(results')].real_time_str = NoLabel ]_vars

C15_Witness ==
    /\ IsFrame(call)
    /\ { "fast", "crop1" } \subseteq call.raised
    /\ call.ops = << "update_roi_fail", "establish_roi" >>
    /\ LastRecord.status \in AcceptedStatus
    /\ ncalls = MaxFrames

\* ------------------------------------------------ the loop frame by frame (C16)
\* The while loop of analyze_video one video frame per step: the limit test,
\* cap.read(), the sampling test, the processing of a sampled frame.
LoopSteps == { 1, 2, 3 }
LoopApp == { << 0, 0, 5, 0 >>, NoLabel }
LoopOutcomes ==
    [ bbox : { << 10, 10, 50, 20 >> }, time_str : { << 0, 0, 0, 0 >>, << 0, 0, 5, 0 >> } ]
    \cup { NoHit }

\* "if frame_idx > self.frame_limit: break"
past_limit(f) == f > FrameLimit

\* sampling test that lets every frame through
is_sampled_always(f, step) == TRUE

\* "if frame_idx % frame_step != 0: frame_idx += 1; continue"
is_sampled(f, step) == f % step = 0

LoopRunning == call.op # "loop_end"

InitLoop ==
    /\ roi_tracker = NewTracker
    /\ anomaly_detector = NewDetector(CONFIG_HARD_DELAY_MAX_MS)
    /\ results = << >>
    /\ frame_idx = 0
    /\ frame_step \in LoopSteps
    /\ call = NoCall
    /\ fail_run = 0
    /\ monitor = NoMonitor
    /\ ncalls = 0

\* the limit is passed, or cap.read() has no more frames
LoopEnd ==
    /\ LoopRunning
    /\ call' = [ op |-> "loop_end", frame |-> frame_idx,
                 by_limit |-> past_limit(frame_idx) ]
    /\ UNCHANGED << roi_tracker, anomaly_detector, results, frame_idx, frame_step, monitor,
                    fail_run, ncalls >>

SkipFrame ==
    /\ LoopRunning
    /\ ~past_limit(frame_idx)
    /\ ~is_sampled(frame_idx, frame_step)
    /\ frame_idx' = frame_idx + 1
    /\ call' = [ op |-> "skip", frame |-> frame_idx ]
    /\ UNCHANGED << roi_tracker, anomaly_detector, results, frame_step, monitor, fail_run, ncalls >>

LoopFrame ==
    /\ LoopRunning
    /\ ~past_limit(frame_idx)
    /\ is_sampled(frame_idx, frame_step)
    /\ \E app_time_str \in LoopApp :
       \E fast1 \in FastOf(LoopOutcomes, roi_tracker, frame_idx) :
       \E glob1 \in GlobalOf(LoopOutcomes, roi_tracker, frame_idx, fast1) :
       \E recheck \in { NeedsRecheck(roi_tracker, anomaly_detector, frame_idx,
                                      app_time_str, fast1, glob1) } :
       \E t1 \in { detect_time_real_optimized(roi_tracker, frame_idx,
                                              fast1, glob1).tracker } :
       \E fast2 \in (IF recheck THEN FastOf(LoopOutcomes, t1, frame_idx) ELSE { NoHit }) :
       \E glob2 \in (IF recheck THEN GlobalOf(LoopOutcomes, t1, frame_idx, fast2)
                      ELSE { NoHit }) :
           FrameApplyTo(app_time_str, fast1, glob1, fast2, glob2, { }, frame_idx + 1)

NextLoop == LoopFrame \/ SkipFrame \/ LoopEnd
SpecLoop == InitLoop /\ [][NextLoop]_vars

\* the sampled frames among the frames 0 .. f - 1
SampledBelow(f) == { k \in 0..(f - 1) : k % frame_step = 0 }

COLON == 10
DOT == 11
BLANK == 12
NoText == << >>                 \* None (an empty string is as false as None)
IsDigit(c) == c \in 0..9
SeqAll(seq, P(_)) == \A i \in 1..Len(seq) : P(seq[i])

\* int(str) of a string of digits
RECURSIVE IntOf(_)
IntOf(seq) ==
    IF seq = << >> THEN 0
    ELSE 10 * IntOf(SubSeq(seq, 1, Len(seq) - 1)) + seq[Len(seq)]
\* f"{n:02d}" for 0 <= n <= 99, and the three digits of 0 <= n <= 999
D2(n) == << n \div 10, n % 10 >>
D3(n) == << n \div 100, (n \div 10) % 10, n % 10 >>
\* f"{h:02d}:{m:02d}:{s:02d}.{ms}" with ms a string
FormatTime(h, m, s, ms) ==
    D2(h) \o << COLON >> \o D2(m) \o << COLON >> \o D2(s) \o << DOT >> \o ms
ValidHMS(h, m, s) == h \in 0..23 /\ m \in 0..59 /\ s \in 0..59

\* n digits start at position i of text
DigitsAt(text, i, n) ==
    i >= 1 /\ i + n - 1 <= Len(text) /\ \A k \in i..(i + n - 1) : IsDigit(text[k])
CharAt(text, i, C) == i >= 1 /\ i <= Len(text) /\ text[i] \in C

\* (\d{2}):(\d{2}):(\d{2}) at position i
CoreAt(text, i) ==
    /\ DigitsAt(text, i, 2) /\ CharAt(text, i + 2, { COLON })
    /\ DigitsAt(text, i + 3, 2) /\ CharAt(text, i + 5, { COLON })
    /\ DigitsAt(text, i + 6, 2)
\* (?![.:\d]) at position j
NotFollowedAt(text, j) == ~CharAt(text, j, 0..11)
\* the pattern with and without the optional group (?:[.:](\d{3}))
WithMsAt(text, i) ==
    /\ CoreAt(text, i) /\ CharAt(text, i + 8, { COLON, DOT })
    /\ DigitsAt(text, i + 9, 3) /\ NotFollowedAt(text, i + 12)
WithoutMsAt(text, i) == CoreAt(text, i) /\ NotFollowedAt(text, i + 8)

\* parse_time_format_colon: re.search takes the leftmost match, the optional
\* group is tried first; None is NoText
parse_time_format_colon(text) ==
    LET starts == { i \in 1..Len(text) : WithMsAt(text, i) \/ WithoutMsAt(text, i) }
    IN  IF starts = { } THEN NoText
        ELSE LET i == SetMin(starts)
                 h == IntOf(SubSeq(text, i, i + 1))
                 m == IntOf(SubSeq(text, i + 3, i + 4))
                 s == IntOf(SubSeq(text, i + 6, i + 7))
                 ms == IF WithMsAt(text, i) THEN SubSeq(text, i + 9, i + 11)
                       ELSE << 0, 0, 0 >>
             IN  IF ~ValidHMS(h, m, s) THEN NoText ELSE FormatTime(h, m, s, ms)

\* re.findall(r'\d+', text): the maximal digit runs, left to right, from i on
RECURSIVE DigitRuns(_, _)
DigitRuns(text, i) ==
    IF i > Len(text) THEN << >>
    ELSE IF ~IsDigit(text[i]) THEN DigitRuns(text, i + 1)
    ELSE LET ends == { j \in i..Len(text) :
                          DigitsAt(text, i, j - i + 1) /\ ~CharAt(text, j + 1, 0..9) }
             j == SetMin(ends)
         IN  << SubSeq(text, i, j) >> \o DigitRuns(text, j + 1)

\* the loop of parse_time_format_digits over the runs
RECURSIVE DigitsScan(_)
DigitsScan(numbers) ==
    IF numbers = << >> THEN NoText
    ELSE LET num == Head(numbers)
             h == IntOf(SubSeq(num, 1, 2))
             m == IntOf(SubSeq(num, 3, 4))
             s == IntOf(SubSeq(num, 5, 6))
         IN  IF Len(num) = 6 /\ ValidHMS(h, m, s)
             THEN FormatTime(h, m, s, << 0, 0, 0 >>)
             ELSE IF Len(num) >= 9 /\ ValidHMS(h, m, s)
             THEN FormatTime(h, m, s, SubSeq(num, 7, 9))
             ELSE DigitsScan(Tail(numbers))

\* digit scan that pads a run of 7 or 8 digits
DigitsScan_pad(numbers) ==
    IF numbers = << >> THEN NoText
    ELSE LET num == Head(numbers)
             h == IntOf(SubSeq(num, 1, 2))
             m == IntOf(SubSeq(num, 3, 4))
             s == IntOf(SubSeq(num, 5, 6))
         IN  IF Len(num) >= 6 /\ ValidHMS(h, m, s)
             THEN FormatTime(h, m, s,
                             SubSeq(SubSeq(num, 7, Len(num)) \o << 0, 0, 0 >>, 1, 3))
             ELSE DigitsScan(Tail(numbers))

parse_time_format_digits_pad(text) == DigitsScan_pad(DigitRuns(text, 1))

\* parse_time_format_digits
parse_time_format_digits(text) == DigitsScan(DigitRuns(text, 1))

\* parse_time_auto: the colon form first, then the digit form
parse_time_auto(text) ==
    LET time_str == parse_time_format_colon(text)
    IN  IF time_str # NoText THEN time_str ELSE parse_time_format_digits(text)

\* str.split(sep)
RECURSIVE Split(_, _)
Split(seq, sep) ==
    LET at == { i \in 1..Len(seq) : seq[i] = sep }
    IN  IF at = { } THEN << seq >>
        ELSE << SubSeq(seq, 1, SetMin(at) - 1) >>
             \o Split(SubSeq(seq, SetMin(at) + 1, Len(seq)), sep)
\* int(str) raises ValueError unless str is a non-empty string of digits
IntOk(seq) == seq # << >> /\ SeqAll(seq, IsDigit)

\* parse_time_to_ms that drops the milliseconds
parse_time_to_ms_text_noms(time_str) ==
    IF time_str = NoText THEN NoneMs
    ELSE LET parts == Split(time_str, COLON) IN
         IF Len(parts) # 3 THEN NoneMs
         ELSE LET s_ms == Split(parts[3], DOT) IN
              IF ~IntOk(parts[1]) \/ ~IntOk(parts[2]) \/ ~IntOk(s_ms[1]) THEN NoneMs
              ELSE ((IntOf(parts[1]) * 3600 + IntOf(parts[2]) * 60 + IntOf(s_ms[1])) * 1000)

\* parse_time_to_ms on the text of a label: split(':'), split('.'), int()
parse_time_to_ms_text(time_str) ==
    IF time_str = NoText THEN NoneMs
    ELSE LET parts == Split(time_str, COLON) IN
         IF Len(parts) # 3 THEN NoneMs
         ELSE LET s_ms == Split(parts[3], DOT) IN
              IF ~IntOk(parts[1]) \/ ~IntOk(parts[2]) \/ ~IntOk(s_ms[1])
                 \/ (Len(s_ms) > 1 /\ ~IntOk(s_ms[2]))
              THEN NoneMs
              ELSE ((IntOf(parts[1]) * 3600 + IntOf(parts[2]) * 60 + IntOf(s_ms[1])) * 1000)
                   + (IF Len(s_ms) > 1 THEN IntOf(s_ms[2]) ELSE 0)

\* ^(\d{1,2}):(\d{2}):(\d{2})(?:[.:](\d{1,3}))?$ on the whole of time_str:
\* the number of hour digits and of millisecond digits (-1: no such group),
\* or no match
ColonFull(time_str) ==
    LET fits(hd, md) ==
            /\ DigitsAt(time_str, 1, hd) /\ CharAt(time_str, hd + 1, { COLON })
            /\ DigitsAt(time_str, hd + 2, 2) /\ CharAt(time_str, hd + 4, { COLON })
            /\ DigitsAt(time_str, hd + 5, 2)
            /\ IF md = -1 THEN Len(time_str) = hd + 6
               ELSE /\ CharAt(time_str, hd + 7, { COLON, DOT })
                    /\ DigitsAt(time_str, hd + 8, md)
                    /\ Len(time_str) = hd + 7 + md
        found == { p \in { 1, 2 } \X { -1, 1, 2, 3 } : fits(p[1], p[2]) }
    IN  IF found = { } THEN [ match |-> FALSE, hour_digits |-> 0, ms_digits |-> -1 ]
        ELSE LET p == CHOOSE q \in found : TRUE
             IN  [ match |-> TRUE, hour_digits |-> p[1], ms_digits |-> p[2] ]

\* re.search(r'^.*?(\d{1,2}):(\d{2}):(\d{2})', original_text): the number of
\* digits of group 1 at the leftmost match (0: no match)
OriginalHourDigits(original_text) ==
    LET at(i, hd) ==
            /\ DigitsAt(original_text, i, hd) /\ CharAt(original_text, i + hd, { COLON })
            /\ DigitsAt(original_text, i + hd + 1, 2)
            /\ CharAt(original_text, i + hd + 3, { COLON })
            /\ DigitsAt(original_text, i + hd + 4, 2)
        starts == { i \in 1..Len(original_text) : at(i, 2) \/ at(i, 1) }
    IN  IF starts = { } THEN 0
        ELSE IF at(SetMin(starts), 2) THEN 2 ELSE 1

\* completeness check that ignores the original text
check_time_format_complete_nooriginal(time_str, original_text) ==
    LET c == ColonFull(time_str) IN
    IF c.match /\ c.ms_digits = 3 THEN [ complete |-> TRUE, missing |-> "complete" ]
    ELSE [ complete |-> FALSE, missing |-> "right" ]

\* check_time_format_complete: (is complete, missing side)
check_time_format_complete(time_str, original_text) ==
    LET c == ColonFull(time_str) IN
    IF time_str = NoText THEN [ complete |-> FALSE, missing |-> "both" ]
    ELSE IF c.match
    THEN IF original_text # NoText /\ OriginalHourDigits(original_text) = 1
         THEN [ complete |-> FALSE, missing |-> "left" ]
         ELSE IF c.ms_digits < 3
         THEN [ complete |-> FALSE, missing |-> "right" ]
         ELSE [ complete |-> TRUE, missing |-> "complete" ]
    ELSE IF SeqAll(time_str, IsDigit) /\ Len(time_str) \in 9..13
    THEN [ complete |-> TRUE, missing |-> "complete" ]
    ELSE IF \E i \in 1..Len(time_str) : time_str[i] = COLON
    THEN IF Len(Split(time_str, COLON)) < 3
         THEN [ complete |-> FALSE, missing |-> "right" ]
         ELSE IF Split(time_str, COLON)[1] = << >>
         THEN [ complete |-> FALSE, missing |-> "left" ]
         ELSE [ complete |-> FALSE, missing |-> "right" ]
    ELSE [ complete |-> FALSE, missing |-> "both" ]

\* the texts handed to the parser
TextHours == { 0, 9, 12, 23, 24 }
TextMinutes == { 0, 34, 60 }
TextSeconds == { 0, 56, 59 }
TextMillis == { << >>, << 7 >>, << 7, 8 >>, << 0, 0, 0 >>, << 0, 0, 1 >>, << 7, 8, 9 >> }
ColonCoreText(h, m, s) == D2(h) \o << COLON >> \o D2(m) \o << COLON >> \o D2(s)
ColonText(h, m, s, ms) ==
    ColonCoreText(h, m, s) \o (IF ms = << >> THEN << >> ELSE << DOT >> \o ms)
ColonTexts ==
    { ColonText(h, m, s, ms) : h \in TextHours, m \in TextMinutes, s \in TextSeconds,
                               ms \in TextMillis }
\* a further digit and ':' in front (an hour field of one digit)
ShortHourTexts ==
    { << 1, COLON >> \o ColonText(12, 34, s, ms) : s \in TextSeconds, ms \in TextMillis }
    \cup { << 1, COLON, 2, 3, COLON, 4, 5, DOT, 6, 7, 8 >>,
           << BLANK, 9, COLON, 1, 2, COLON, 3, 4, COLON, 5, 6 >> }
DigitStems ==
    { << 1, 2, 3, 4, 5, 6, 7, 8, 9, 0, 1, 2, 3 >>, << 2, 3, 5, 9, 5, 9, 0, 0, 1, 9, 9, 9, 9 >>,
      << 0, 0, 0, 0, 0, 0, 0, 0, 0, 0, 0, 0, 0 >>, << 2, 4, 0, 0, 0, 0, 1, 2, 3, 4, 5, 6, 7 >> }
DigitLens == { 5, 6, 7, 8, 9, 10, 13 }
DigitTexts == { SubSeq(stem, 1, n) : stem \in DigitStems, n \in DigitLens }
\* HH:MM:SS followed by '.' or ':' and a millisecond suffix that does not
\* have three digits, and the same core behind one more hour digit
BadMillis ==
    { << 7 >>, << 0, 4 >>, << 7, 8 >>, << 7, 8, 9, 1 >>, << 1, 2, 3, 4, 5, 6, 7, 8, 9 >> }
StrictCores == { ColonCoreText(h, m, s) : h \in { 1, 12, 24 }, m \in { 2, 34 }, s \in { 3, 56 } }
BadMillisTexts ==
    { core \o << sep >> \o ms : core \in StrictCores, sep \in { DOT, COLON }, ms \in BadMillis }
LongHourTexts == { << 1 >> \o core : core \in StrictCores }
ParseTexts == ColonTexts \cup ShortHourTexts \cup DigitTexts \cup BadMillisTexts \cup LongHourTexts

InitParse ==
    /\ roi_tracker = NewTracker
    /\ anomaly_detector = NewDetector(CONFIG_HARD_DELAY_MAX_MS)
    /\ results = << >>
    /\ frame_idx = 0
    /\ frame_step = 1
    /\ fail_run = 0
    /\ monitor = NoMonitor
    /\ ncalls = 0
    /\ \E text \in ParseTexts : call = [ op |-> "text", text |-> text ]

\* parse_time_auto(text), then parse_time_to_ms of what it returned
ParseAuto ==
    /\ call.op = "text"
    /\ \E time_str \in { parse_time_auto(call.text) } :
         call' = [ op |-> "parse_time_auto", text |-> call.text,
                   time_str |-> time_str, ms |-> parse_time_to_ms_text(time_str) ]
    /\ UNCHANGED << roi_tracker, anomaly_detector, results, frame_idx, frame_step, monitor,
                    fail_run, ncalls >>

\* the canonical string parsed again
Reparse ==
    /\ call.op = "parse_time_auto" /\ call.time_str # NoText
    /\ \E time_str \in { parse_time_auto(call.time_str) } :
         call' = [ op |-> "reparse", text |-> call.time_str, first_ms |-> call.ms,
                   time_str |-> time_str, ms |-> parse_time_to_ms_text(time_str) ]
    /\ UNCHANGED << roi_tracker, anomaly_detector, results, frame_idx, frame_step, monitor,
                    fail_run, ncalls >>

\* _verify_and_expand_roi: the completeness check of a parsed label
CheckComplete ==
    /\ call.op = "parse_time_auto" /\ call.time_str # NoText
    /\ call' = [ op |-> "check_time_format_complete", text |-> call.text,
                 time_str |-> call.time_str,
                 ret |-> check_time_format_complete(call.time_str, call.text) ]
    /\ UNCHANGED << roi_tracker, anomaly_detector, results, frame_idx, frame_step, monitor,
                    fail_run, ncalls >>

NextParse == ParseAuto \/ Reparse \/ CheckComplete
SpecParse == InitParse /\ [][NextParse]_vars

InRange(h, m, s) == h \in 0..23 /\ m \in 0..59 /\ s \in 0..59
FullMillis == { ms \in TextMillis : Len(ms) = 3 }

\* C17: for a text HH:MM:SS.mmm with fields in range and three millisecond
\* digits, parse_time_auto returns the text itself and parse_time_to_ms of
\* it returns ((H*3600+M*60+S)*1000)+mmm; without the millisecond suffix the
\* result is the text followed by .000; parsing the canonical string again
\* returns the same string and the same milliseconds.
C17_ColonRoundTrip ==
    /\ call.op = "parse_time_auto"
       => \A h \in TextHours, m \in TextMinutes, s \in TextSeconds :
            InRange(h, m, s)
            => /\ \A ms \in FullMillis :
                    call.text = ColonText(h, m, s, ms)
                    => /\ call.time_str = call.text
                       /\ call.ms = ((h * 3600 + m * 60 + s) * 1000) + IntOf(ms)
               /\ call.text = ColonText(h, m, s, << >>)
                  => /\ call.time_str = call.text \o << DOT, 0, 0, 0 >>
                     /\ call.ms = (h * 3600 + m * 60 + s) * 1000
    /\ call.op = "reparse"
       => /\ call.time_str = call.text
          /\ call.ms = call.first_ms /\ call.ms # NoneMs

C17_Witness ==
    /\ call.op = "reparse"
    /\ call.text = ColonText(23, 34, 59, << 7, 8, 9 >>)
    /\ call.time_str = call.text
    /\ call.ms = 84899789

\* C18: for a text that is one digit run with HH, MM, SS in range,
\* parse_time_auto returns HH:MM:SS.000 for 6 digits, nothing for 7 or 8
\* digits, and HH:MM:SS. followed by the 7th to 9th digit for 9 or more.
C18_DigitRuns ==
    ( /\ call.op = "parse_time_auto"
      /\ SeqAll(call.text, IsDigit) /\ Len(call.text) >= 6
      /\ InRange(IntOf(SubSeq(call.text, 1, 2)), IntOf(SubSeq(call.text, 3, 4)),
                 IntOf(SubSeq(call.text, 5, 6))) )
    => LET hms == ColonCoreText(IntOf(SubSeq(call.text, 1, 2)),
                                IntOf(SubSeq(call.text, 3, 4)),
                                IntOf(SubSeq(call.text, 5, 6)))
       IN  /\ Len(call.text) = 6 => call.time_str = hms \o << DOT, 0, 0, 0 >>
           /\ Len(call.text) \in { 7, 8 } => call.time_str = NoText
           /\ Len(call.text) >= 9
              => call.time_str = hms \o << DOT >> \o SubSeq(call.text, 7, 9)

C18_Witness ==
    /\ call.op = "parse_time_auto"
    /\ call.text = << 2, 3, 5, 9, 5, 9, 0, 0, 1, 9, 9, 9, 9 >>
    /\ call.time_str = ColonText(23, 59, 59, << 0, 0, 1 >>)
    /\ call.ms = 86399001

\* the number of millisecond digits after the first HH:MM:SS of a text
\* (0: none) and whether its hour field has one digit only
OriginalMsDigits(text) ==
    LET starts == { i \in 1..Len(text) : CoreAt(text, i) } IN
    IF starts = { } THEN 0
    ELSE LET j == SetMin(starts) + 8 IN
         IF ~CharAt(text, j, { COLON, DOT }) THEN 0
         ELSE Cardinality({ n \in 1..3 : DigitsAt(text, j + 1, n) })

\* C19 as stated: a parsed label is judged incomplete on the left when the
\* original text has a one-digit hour field, otherwise incomplete on the
\* right when the original text has no or fewer than three millisecond
\* digits, and complete only with a two-digit hour and three millisecond
\* digits in the original text.
C19_Original ==
    call.op = "check_time_format_complete"
    => LET short_hour == OriginalHourDigits(call.text) = 1
           short_ms == OriginalMsDigits(call.text) < 3
       IN  /\ short_hour => call.ret = [ complete |-> FALSE, missing |-> "left" ]
           /\ ( ~short_hour /\ short_ms )
              => call.ret = [ complete |-> FALSE, missing |-> "right" ]
           /\ call.ret.complete => ( ~short_hour /\ ~short_ms )

\* ---------------------------------------------------------------------
\* network log matching (network_matcher.py).  Timestamps are seconds as
\* floats in the source; here they are counted in tenths of a second, which
\* is exact for the comparisons made on whole-second log entries and
\* queries with one decimal.
\* ---------------------------------------------------------------------
PerSecond == 10
DEFAULT_TOLERANCE == 1 * PerSecond
NoPing == << >>

\* bisect.bisect_left on a sorted list: the number of entries below x
bisect_left(timestamps, x) ==
    Cardinality({ i \in 1..Len(timestamps) : timestamps[i] < x })

\* only the left neighbour of the insertion point is looked at
Candidates_leftonly(network_data, timestamp) ==
    LET timestamps == [ i \in 1..Len(network_data) |-> network_data[i].timestamp ]
        idx == bisect_left(timestamps, timestamp)
    IN  IF idx > 0
        THEN << << idx - 1, Abs(network_data[idx].timestamp - timestamp) >> >>
        ELSE << << 0, Abs(network_data[1].timestamp - timestamp) >> >>

\* candidates as (0-based index, time difference), left neighbour first
Candidates(network_data, timestamp) ==
    LET timestamps == [ i \in 1..Len(network_data) |-> network_data[i].timestamp ]
        idx == bisect_left(timestamps, timestamp)
    IN  (IF idx > 0
         THEN << << idx - 1, Abs(network_data[idx].timestamp - timestamp) >> >>
         ELSE << >>)
        \o (IF idx < Len(network_data)
            THEN << << idx, Abs(network_data[idx + 1].timestamp - timestamp) >> >>
            ELSE << >>)

\* min(candidates, key=lambda x: x[1]): the first of the smallest
MinByDiff(candidates) ==
    candidates[SetMin({ i \in 1..Len(candidates) :
                          \A j \in 1..Len(candidates) : candidates[i][2] <= candidates[j][2] })]

\* the nearest entry whatever its distance
find_nearest_ping_notolerance(tolerance, network_data, timestamp) ==
    IF network_data = << >> THEN NoPing
    ELSE network_data[MinByDiff(Candidates(network_data, timestamp))[1] + 1]

\* NetworkMatcher.find_nearest_ping
find_nearest_ping(tolerance, network_data, timestamp) ==
    IF network_data = << >> THEN NoPing
    ELSE LET best == MinByDiff(Candidates(network_data, timestamp)) IN
         IF best[2] <= tolerance THEN network_data[best[1] + 1] ELSE NoPing

\* the logs and queries
PingSeconds == { 100, 101, 103 }
PingEntry(sec) == [ timestamp |-> sec * PerSecond ]
PingLogs ==
    { << >> }
    \cup { << PingEntry(a) >> : a \in PingSeconds }
    \cup { << PingEntry(p[1]), PingEntry(p[2]) >> :
             p \in { q \in PingSeconds \X PingSeconds : q[1] <= q[2] } }
    \cup { << PingEntry(p[1]), PingEntry(p[2]), PingEntry(p[3]) >> :
             p \in { q \in PingSeconds \X PingSeconds \X PingSeconds :
                       q[1] <= q[2] /\ q[2] <= q[3] } }
PingQueries == (98 * PerSecond)..(105 * PerSecond)
PingTolerances == { DEFAULT_TOLERANCE \div 2, DEFAULT_TOLERANCE }

InitPing ==
    /\ roi_tracker = NewTracker
    /\ anomaly_detector = NewDetector(CONFIG_HARD_DELAY_MAX_MS)
    /\ results = << >>
    /\ frame_idx = 0
    /\ frame_step = 1
    /\ fail_run = 0
    /\ monitor = NoMonitor
    /\ ncalls = 0
    /\ \E network_data \in PingLogs, timestamp \in PingQueries, tolerance \in PingTolerances :
         call = [ op |-> "query", tolerance |-> tolerance, network_data |-> network_data,
                  timestamp |-> timestamp ]

FindNearestPing ==
    /\ call.op = "query"
    /\ call' = [ op |-> "find_nearest_ping", tolerance |-> call.tolerance,
                 network_data |-> call.network_data, timestamp |-> call.timestamp,
                 ret |-> find_nearest_ping(call.tolerance, call.network_data, call.timestamp) ]
    /\ UNCHANGED << roi_tracker, anomaly_detector, results, frame_idx, frame_step, monitor,
                    fail_run, ncalls >>

NextPing == FindNearestPing
SpecPing == InitPing /\ [][NextPing]_vars

ExampleLog == << PingEntry(100), PingEntry(103) >>
OnExample ==
    /\ call.op = "find_nearest_ping"
    /\ call.network_data = ExampleLog
    /\ call.tolerance = DEFAULT_TOLERANCE

\* C20 as stated: on the log [100, 103] with tolerance 1.0 the query 101.4
\* returns the entry 100 and the query 101.6 returns no match.
C20_Original ==
    OnExample
    => /\ call.timestamp = 1014 => call.ret = PingEntry(100)
       /\ call.timestamp = 1016 => call.ret = NoPing

\* C20 (amended): on the log [100, 103] with tolerance 1.0 the queries
\* 101.4 and 101.6 both return no match (their nearest entries are 1.4 s
\* away); the entry 100 is returned exactly for the queries from 99.0 to
\* 101.0 and the entry 103 exactly for the queries from 102.0 to 104.0.
C20_NearestWithinTolerance ==
    OnExample
    => /\ call.timestamp \in { 1014, 1016 } => call.ret = NoPing
       /\ call.ret = PingEntry(100) <=> call.timestamp \in 990..1010
       /\ call.ret = PingEntry(103) <=> call.timestamp \in 1020..1040

C20_Witness ==
    /\ OnExample
    /\ call.timestamp = 1014
    /\ call.ret = NoPing

\* the smallest time difference between the query and any entry of the log
NearestDiff(network_data, timestamp) ==
    SetMin({ Abs(network_data[i].timestamp - timestamp) : i \in 1..Len(network_data) })

\* C21: on a log sorted ascending, find_nearest_ping returns an entry whose
\* time difference to the query is the smallest over the whole log when
\* that difference is at most the tolerance (equality accepted), and no
\* match otherwise, also for an empty log; an entry farther than the
\* tolerance is never returned.
C21_NearestOverWholeLog ==
    call.op = "find_nearest_ping"
    => IF call.network_data # << >>
          /\ NearestDiff(call.network_data, call.timestamp) <= call.tolerance
       THEN /\ call.ret # NoPing
            /\ \E i \in 1..Len(call.network_data) : call.ret = call.network_data[i]
            /\ Abs(call.ret.timestamp - call.timestamp)
                 = NearestDiff(call.network_data, call.timestamp)
       ELSE call.ret = NoPing

C21_Witness ==
    /\ call.op = "find_nearest_ping"
    /\ call.network_data = << PingEntry(100), PingEntry(101), PingEntry(103) >>
    /\ call.tolerance = DEFAULT_TOLERANCE
    /\ call.timestamp = 102 * PerSecond
    /\ call.ret = PingEntry(101)

\* ---------------------------------------------------------------------
\* offset calibration and merge (network_matcher.py).  A log argument is
\* None or a list; the calendar date of an absolute timestamp is its whole
\* number of days (the local time zone is taken as UTC); labels are the
\* tuples <<h, m, s, ms>> with ms a multiple of 100, exact in tenths.
\* ---------------------------------------------------------------------
SecondsPerDay == 24 * 3600
NoLog == [ supplied |-> FALSE, entries |-> << >> ]
Log(entries) == [ supplied |-> TRUE, entries |-> entries ]
LogTruthy(log) == log.supplied /\ log.entries # << >>
NoOffset == [ known |-> FALSE, value |-> 0 ]
Offset(v) == [ known |-> TRUE, value |-> v ]

\* parse_time_to_timestamp(time_str, base_date) with base_date the date of
\* network_first_ts
parse_time_to_timestamp(time_str, network_first_ts) ==
    IF time_str = NoLabel THEN NoOffset
    ELSE IF ~( time_str[1] \in 0..23 /\ time_str[2] \in 0..59 /\ time_str[3] \in 0..59 )
    THEN NoOffset
    ELSE Offset((network_first_ts \div (SecondsPerDay * PerSecond)) * (SecondsPerDay * PerSecond)
                + (time_str[1] * 3600 + time_str[2] * 60 + time_str[3]) * PerSecond
                + (time_str[4] * PerSecond) \div 1000)

\* the frames with a truthy time field, in sequence order
WithField(video_data, time_field) ==
    { i \in 1..Len(video_data) : video_data[i][time_field] # NoLabel }

\* calibration on the last labelled frame instead of the first
calculate_time_offset_last(video_data, network_data, time_field) ==
    IF video_data = << >> \/ network_data = << >> THEN NoOffset
    ELSE IF WithField(video_data, time_field) = { } THEN NoOffset
    ELSE LET first_valid_frame == video_data[SetMax(WithField(video_data, time_field))]
             time_timestamp == parse_time_to_timestamp(first_valid_frame[time_field],
                                                       network_data[1].timestamp)
         IN  IF ~time_timestamp.known THEN NoOffset
             ELSE Offset(time_timestamp.value - first_valid_frame.timestamp)

\* NetworkMatcher.calculate_time_offset
calculate_time_offset(video_data, network_data, time_field) ==
    IF video_data = << >> \/ network_data = << >> THEN NoOffset
    ELSE IF WithField(video_data, time_field) = { } THEN NoOffset
    ELSE LET first_valid_frame == video_data[SetMin(WithField(video_data, time_field))]
             time_timestamp == parse_time_to_timestamp(first_valid_frame[time_field],
                                                       network_data[1].timestamp)
         IN  IF ~time_timestamp.known THEN NoOffset
             ELSE Offset(time_timestamp.value - first_valid_frame.timestamp)

\* the offsets match computes before its loop
match_offset(video_data, log, time_field, auto_offset) ==
    IF auto_offset /\ LogTruthy(log)
    THEN calculate_time_offset(video_data, log.entries, time_field)
    ELSE NoOffset

\* the fields one log adds to a merged row
merged_fields(tolerance, log, offset, timestamp, ping_key, status_key) ==
    IF ~LogTruthy(log) THEN << >>
    ELSE LET absolute_ts == IF offset.known THEN timestamp + offset.value ELSE timestamp
             ping == find_nearest_ping(tolerance, log.entries, absolute_ts)
         IN  IF ping # NoPing
             THEN (ping_key :> ping.ping_ms) @@ (status_key :> ping.status)
             ELSE (ping_key :> NoneMs) @@ (status_key :> "no_data")

\* NetworkMatcher.match
match(tolerance, video_data, phone_log, pc_log, auto_offset) ==
    LET phone_offset == match_offset(video_data, phone_log, "T_app", auto_offset)
        pc_offset == match_offset(video_data, pc_log, "T_real", auto_offset)
    IN  [ i \in 1..Len(video_data) |->
            video_data[i]
            @@ merged_fields(tolerance, phone_log, phone_offset, video_data[i].timestamp,
                             "phone_ping_ms", "phone_status")
            @@ merged_fields(tolerance, pc_log, pc_offset, video_data[i].timestamp,
                             "pc_ping_ms", "pc_status") ]

\* the frames and logs handed to match
DayOne == SecondsPerDay * PerSecond
MatchLabels == { NoLabel, << 0, 1, 40, 0 >>, << 0, 1, 42, 500 >> }
MatchStamps == << 0, 15 >>
MatchFrame(i, app, real) == [ timestamp |-> MatchStamps[i], T_app |-> app, T_real |-> real ]
MatchVideos ==
    { << >> }
    \cup { << MatchFrame(1, a, r) >> : a \in MatchLabels, r \in MatchLabels }
    \cup { << MatchFrame(1, a1, r1), MatchFrame(2, a2, r2) >> :
             a1 \in MatchLabels, r1 \in MatchLabels, a2 \in MatchLabels, r2 \in MatchLabels }
LogEntry(sec, ping_ms, status) ==
    [ timestamp |-> DayOne + sec * PerSecond, ping_ms |-> ping_ms, status |-> status ]
MatchLogs ==
    { NoLog, Log(<< >>),
      Log(<< LogEntry(100, 20, "ok"), LogEntry(103, NoneMs, "timeout") >>),
      Log(<< [ timestamp |-> 0, ping_ms |-> 35, status |-> "ok" ],
             LogEntry(101, 30, "ok") >>) }

InitMatch ==
    /\ roi_tracker = NewTracker
    /\ anomaly_detector = NewDetector(CONFIG_HARD_DELAY_MAX_MS)
    /\ results = << >>
    /\ frame_idx = 0
    /\ frame_step = 1
    /\ fail_run = 0
    /\ monitor = NoMonitor
    /\ ncalls = 0
    /\ \E video_data \in MatchVideos, phone_log \in MatchLogs, pc_log \in MatchLogs,
          auto_offset \in BOOLEAN :
         call = [ op |-> "merge", tolerance |-> DEFAULT_TOLERANCE, video_data |-> video_data,
                  phone_log |-> phone_log, pc_log |-> pc_log, auto_offset |-> auto_offset ]

Match ==
    /\ call.op = "merge"
    /\ call' = [ op |-> "match", tolerance |-> call.tolerance, video_data |-> call.video_data,
                 phone_log |-> call.phone_log, pc_log |-> call.pc_log,
                 auto_offset |-> call.auto_offset,
                 phone_offset |-> match_offset(call.video_data, call.phone_log, "T_app",
                                               call.auto_offset),
                 pc_offset |-> match_offset(call.video_data, call.pc_log, "T_real",
                                            call.auto_offset),
                 ret |-> match(call.tolerance, call.video_data, call.phone_log, call.pc_log,
                               call.auto_offset) ]
    /\ UNCHANGED << roi_tracker, anomaly_detector, results, frame_idx, frame_step, monitor,
                    fail_run, ncalls >>

NextMatch == Match
SpecMatch == InitMatch /\ [][NextMatch]_vars

\* the absolute time of a label on the calendar date of the log's first entry
LabelOnLogDate(label, entries) ==
    (entries[1].timestamp \div DayOne) * DayOne
    + (label[1] * 3600 + label[2] * 60 + label[3]) * PerSecond + label[4] \div 100

\* what one log must give for row i when frames are looked up at
\* timestamp + shift
LookedUpAt(log, shift, i, ping_key, status_key) ==
    LET ping == find_nearest_ping(call.tolerance, log.entries,
                                  call.video_data[i].timestamp + shift)
    IN  /\ call.ret[i][ping_key] = (IF ping = NoPing THEN NoneMs ELSE ping.ping_ms)
        /\ call.ret[i][status_key] = (IF ping = NoPing THEN "no_data" ELSE ping.status)

CalibratedOn(log, offset, time_field, ping_key, status_key) ==
    ( call.auto_offset /\ log.supplied /\ log.entries # << >>
      /\ \E i \in 1..Len(call.video_data) : call.video_data[i][time_field] # NoLabel )
    => LET first == CHOOSE i \in 1..Len(call.video_data) :
                      /\ call.video_data[i][time_field] # NoLabel
                      /\ \A j \in 1..(i - 1) : call.video_data[j][time_field] = NoLabel
           expected == LabelOnLogDate(call.video_data[first][time_field], log.entries)
                       - call.video_data[first].timestamp
       IN  /\ offset = Offset(expected)
           /\ \A i \in 1..Len(call.video_data) :
                LookedUpAt(log, expected, i, ping_key, status_key)

\* C22: the offset of a log is the absolute time of the label of the first
\* frame, in sequence order, whose designated field (T_app for the phone
\* log, T_real for the PC log) holds a label, placed on the calendar date
\* of the log's first entry, minus that frame's video-relative timestamp;
\* match looks every frame up at frame.timestamp + offset.
C22_OffsetFromFirstLabel ==
    call.op = "match"
    => /\ CalibratedOn(call.phone_log, call.phone_offset, "T_app",
                       "phone_ping_ms", "phone_status")
       /\ CalibratedOn(call.pc_log, call.pc_offset, "T_real", "pc_ping_ms", "pc_status")

C22_Witness ==
    /\ call.op = "match"
    /\ call.auto_offset
    /\ Len(call.video_data) = 2
    /\ call.video_data[1].T_real = NoLabel
    /\ call.video_data[2].T_real = << 0, 1, 42, 500 >>
    /\ call.video_data[1].T_app = << 0, 1, 40, 0 >>
    /\ call.video_data[2].T_app = << 0, 1, 42, 500 >>
    /\ call.pc_offset = Offset(DayOne + 1025 - 15)
    /\ call.phone_offset = Offset(DayOne + 1000)
    /\ call.ret[2].pc_status = "timeout"
    /\ call.ret[1].phone_status = "ok"

\* C23 as stated: match returns one merged row per frame, in input order,
\* with the frame's fields unchanged and, for each supplied log, a ping
\* value and a status (the matched entry's or no_data), also when the
\* calibration fails or an input is empty.
C23_Original ==
    call.op = "match"
    => /\ Len(call.ret) = Len(call.video_data)
       /\ \A i \in 1..Len(call.ret) :
            /\ \A f \in DOMAIN call.video_data[i] : call.ret[i][f] = call.video_data[i][f]
            /\ call.phone_log.supplied
               => /\ { "phone_ping_ms", "phone_status" } \subseteq DOMAIN call.ret[i]
                  /\ \/ call.ret[i].phone_status = "no_data"
                     \/ \E k \in 1..Len(call.phone_log.entries) :
                          call.ret[i].phone_status = call.phone_log.entries[k].status
            /\ call.pc_log.supplied
               => /\ { "pc_ping_ms", "pc_status" } \subseteq DOMAIN call.ret[i]
                  /\ \/ call.ret[i].pc_status = "no_data"
                     \/ \E k \in 1..Len(call.pc_log.entries) :
                          call.ret[i].pc_status = call.pc_log.entries[k].status

\* ---------------------------------------------------------------------
\* NetworkMonitor (core/network_monitor.py, pc_network_monitor): one caller
\* thread calling start(), stop() and get_statistics(), and the threads
\* start() creates.  Time is counted in whole seconds: a ping lasts up to
\* timeout + 1 seconds, time.sleep lasts sleep_time seconds, join waits at
\* most JOIN_TIMEOUT seconds; the other statements take no time.  data holds
\* the number of samples, counted up to MaxSamples.
\* ---------------------------------------------------------------------
JOIN_TIMEOUT == 5
DEFAULT_INTERVAL == 1
DEFAULT_PING_TIMEOUT == 2
Intervals == { DEFAULT_INTERVAL, JOIN_TIMEOUT + 1 }
PingTimeouts == { DEFAULT_PING_TIMEOUT, JOIN_TIMEOUT }
TargetCounts == { 1, 2 }
PingDurations(timeout) == { 0, timeout + 1 }

NewMonitor(interval, timeout, ntargets) ==
    [ running |-> FALSE, thread |-> 0, data |-> 0, loops |-> << >>,
      caller |-> "idle", join_left |-> 0, stopped |-> FALSE,
      interval |-> interval, timeout |-> timeout, ntargets |-> ntargets ]
NewLoop == [ pc |-> "while", left |-> 0, target |-> 1, elapsed |-> 0 ]

Alive(m) == { i \in 1..Len(m.loops) : m.loops[i].pc # "done" }
MonitorCall(op, i) == [ op |-> op, thread |-> i ]
MonitorRest ==
    UNCHANGED << roi_tracker, anomaly_detector, results, frame_idx, frame_step,
                 fail_run, ncalls >>

InitMonitor ==
    /\ roi_tracker = NewTracker
    /\ anomaly_detector = NewDetector(CONFIG_HARD_DELAY_MAX_MS)
    /\ results = << >>
    /\ frame_idx = 0
    /\ frame_step = 1
    /\ fail_run = 0
    /\ ncalls = 0
    /\ call = NoCall
    /\ \E interval \in Intervals, timeout \in PingTimeouts, ntargets \in TargetCounts :
         monitor = NewMonitor(interval, timeout, ntargets)

\* start()
MonitorStart ==
    /\ monitor.caller = "idle"
    /\ IF monitor.running
       THEN /\ call' = MonitorCall("start_ignored", monitor.thread)
            /\ UNCHANGED monitor
       ELSE /\ Len(monitor.loops) < MaxStarts
            /\ monitor' = [ monitor EXCEPT !.running = TRUE, !.data = 0,
                                           !.loops = Append(monitor.loops, NewLoop),
                                           !.thread = Len(monitor.loops) + 1,
                                           !.stopped = FALSE ]
            /\ call' = MonitorCall("start", Len(monitor.loops) + 1)
    /\ MonitorRest

\* stop() up to the call of join
MonitorStop ==
    /\ monitor.caller = "idle"
    /\ IF ~monitor.running
       THEN /\ monitor' = [ monitor EXCEPT !.stopped = TRUE ]
            /\ call' = MonitorCall("stop_ignored", monitor.thread)
       ELSE IF monitor.thread # 0
       THEN /\ monitor' = [ monitor EXCEPT !.running = FALSE, !.caller = "join",
                                           !.join_left = JOIN_TIMEOUT ]
            /\ call' = MonitorCall("stop", monitor.thread)
       ELSE /\ monitor' = [ monitor EXCEPT !.running = FALSE, !.stopped = TRUE ]
            /\ call' = MonitorCall("stop_return", 0)
    /\ MonitorRest

\* thread.join(timeout=5) returns: the thread has ended or the time is up
MonitorJoinReturn ==
    /\ monitor.caller = "join"
    /\ monitor.loops[monitor.thread].pc = "done" \/ monitor.join_left = 0
    /\ monitor' = [ monitor EXCEPT !.caller = "idle", !.join_left = 0, !.stopped = TRUE ]
    /\ call' = MonitorCall("stop_return", monitor.thread)
    /\ MonitorRest

\* get_statistics() / save_log(): the caller reads data
MonitorRead ==
    /\ monitor.caller = "idle"
    /\ call' = MonitorCall("get_statistics", monitor.thread)
    /\ UNCHANGED monitor
    /\ MonitorRest

\* _monitor_loop: while self.running
LoopWhile(i) ==
    /\ monitor.loops[i].pc = "while"
    /\ monitor' = [ monitor EXCEPT !.loops[i] =
                      IF monitor.running
                      THEN [ pc |-> "for", left |-> 0, target |-> 1, elapsed |-> 0 ]
                      ELSE [ pc |-> "done", left |-> 0, target |-> 1, elapsed |-> 0 ] ]
    /\ call' = MonitorCall("while", i)
    /\ MonitorRest

\* the for loop without "if not self.running: break"
LoopFor_nobreak(i) ==
    /\ monitor.loops[i].pc = "for"
    /\ IF monitor.loops[i].target <= monitor.ntargets
       THEN \E d \in PingDurations(monitor.timeout) :
              monitor' = [ monitor EXCEPT !.loops[i].pc = "ping", !.loops[i].left = d,
                                          !.loops[i].elapsed = @ + d ]
       ELSE monitor' = [ monitor EXCEPT !.loops[i].pc = "sleep",
                                        !.loops[i].left =
                                            Max(0, monitor.interval - monitor.loops[i].elapsed) ]
    /\ call' = MonitorCall("for", i)
    /\ MonitorRest

\* for target in self.targets: if not self.running: break; the ping begins,
\* or the loop body ends and time.sleep(sleep_time) begins
LoopFor(i) ==
    /\ monitor.loops[i].pc = "for"
    /\ IF monitor.loops[i].target <= monitor.ntargets /\ monitor.running
       THEN \E d \in PingDurations(monitor.timeout) :
              monitor' = [ monitor EXCEPT !.loops[i].pc = "ping", !.loops[i].left = d,
                                          !.loops[i].elapsed = @ + d ]
       ELSE monitor' = [ monitor EXCEPT !.loops[i].pc = "sleep",
                                        !.loops[i].left =
                                            Max(0, monitor.interval - monitor.loops[i].elapsed) ]
    /\ call' = MonitorCall("for", i)
    /\ MonitorRest

\* _ping_once has returned: self.data.append(status)
LoopAppend(i) ==
    /\ monitor.loops[i].pc = "ping" /\ monitor.loops[i].left = 0
    /\ monitor' = [ monitor EXCEPT !.data = Min(@ + 1, MaxSamples),
                                   !.loops[i].pc = "for", !.loops[i].target = @ + 1 ]
    /\ call' = MonitorCall("append", i)
    /\ MonitorRest

\* time.sleep has returned
LoopWake(i) ==
    /\ monitor.loops[i].pc = "sleep" /\ monitor.loops[i].left = 0
    /\ monitor' = [ monitor EXCEPT !.loops[i].pc = "while" ]
    /\ call' = MonitorCall("wake", i)
    /\ MonitorRest

LoopStep == \E i \in 1..Len(monitor.loops) : LoopWhile(i) \/ LoopFor(i) \/ LoopAppend(i) \/ LoopWake(i)

\* one second passes: every thread is waiting for a ping, a sleep or a join
Tick ==
    /\ \A i \in Alive(monitor) :
         monitor.loops[i].pc \in { "ping", "sleep" } /\ monitor.loops[i].left > 0
    /\ monitor.caller = "join"
       => monitor.join_left > 0 /\ monitor.loops[monitor.thread].pc # "done"
    /\ Alive(monitor) # { }
    /\ monitor' = [ monitor EXCEPT
                      !.loops = [ i \in 1..Len(monitor.loops) |->
                                    IF i \in Alive(monitor)
                                    THEN [ monitor.loops[i] EXCEPT !.left = @ - 1 ]
                                    ELSE monitor.loops[i] ],
                      !.join_left = IF monitor.caller = "join" THEN @ - 1 ELSE @ ]
    /\ call' = MonitorCall("tick", 0)
    /\ MonitorRest

NextMonitor ==
    \/ MonitorStart
    \/ MonitorStop
    \/ MonitorJoinReturn
    \/ MonitorRead
    \/ LoopStep
    \/ Tick
SpecMonitor == InitMonitor /\ [][NextMonitor]_vars

\* C24 as stated: once stop() has returned, the monitor loop has finished
\* and no sample is appended to data any more, so a read of data after
\* stop() never meets an append.
C24_Original ==
    monitor.stopped
    => /\ Alive(monitor) = { }
       /\ call.op # "append"

\* C26 as stated: at most one monitor loop is alive at any time; start()
\* while running creates no thread and leaves data alone, and start() after
\* a stop() whose join timed out does not leave the old loop running beside
\* the new one.
C26_Original ==
    /\ Cardinality(Alive(monitor)) <= 1
    /\ call.op = "start_ignored" => monitor.running

\* C25 as stated: every frame recorded as ok or ok_rechecked has a delay
\* within [-5000, hard cap], also when its T_real was adopted from the
\* recheck.
C25_Original ==
    \A i \in 1..Len(results) :
      results[i].status \in AcceptedStatus
      => /\ results[i].delay_ms # NoDelay
         /\ results[i].delay_ms[1] <= anomaly_detector.hard_delay_max_ms
         /\ results[i].delay_ms[1] >= NEGATIVE_LIMIT_MS

\* the delays of the records with an accepted status, in frame order
AcceptedDelays ==
    LET S == { i \in 1..Len(results) : results[i].status \in AcceptedStatus }
    IN  [ k \in 1..Cardinality(S) |->
            results[CHOOSE i \in S : Cardinality({ j \in S : j < i }) = k - 1].delay_ms[1] ]

\* C27 as stated: normal_delays holds exactly the delays of the accepted
\* frames (final status ok or ok_rechecked), in frame order, cut to the
\* last 500.
C27_Original ==
    anomaly_detector.normal_delays = LastN(AcceptedDelays, NORMAL_DELAYS_MAX)

\* C28 as stated: a frame flagged needs_recheck is recorded as ok with its
\* first T_real reading only if the second recognition returned a T_real
\* value equal to the first.
C28_Original ==
    ( /\ IsFrame(call)
      /\ call.a_ran /\ call.a.recheck
      /\ LastRecord.status = "ok"
      /\ call.final_real_ms = call.first_real_ms )
    => call.recheck_ms = call.first_real_ms

\* ---------------------------------------------------------------------
\* T_real search at the level of the recognition output (time_detector.py):
\* the result of one ocr call is a list of candidates [text, conf, bbox],
\* conf in hundredths, bbox in frame coordinates; a ratio r = a / b is
\* compared with 0.5 as 2 * a > b.
\* ---------------------------------------------------------------------
OCR_MIN_CONF == 60
EXPAND_PIXELS == 50
EDGE_MARGIN == 10
EDGE_MARGIN_AFTER == 5

RoiArea(roi) == (roi[3] - roi[1]) * (roi[4] - roi[2])
RoiIntersection(roi1, roi2) ==
    Max(0, Min(roi1[3], roi2[3]) - Max(roi1[1], roi2[1]))
    * Max(0, Min(roi1[4], roi2[4]) - Max(roi1[2], roi2[2]))

\* calculate_overlap(roi1, roi2) > 0.5
overlap_above_half(roi1, roi2) ==
    LET intersection == RoiIntersection(roi1, roi2)
        union == RoiArea(roi1) + RoiArea(roi2) - intersection
    IN  union > 0 /\ 2 * intersection > union

\* intersection / area_bbox > 0.5
containment_above_half(bbox, exclude_roi) ==
    RoiArea(bbox) > 0 /\ 2 * RoiIntersection(bbox, exclude_roi) > RoiArea(bbox)

\* "if overlap > 0.5 or containment > 0.5" of _verify_and_expand_roi
excluded(bbox, exclude_roi) ==
    /\ exclude_roi # NoneRoi
    /\ overlap_above_half(bbox, exclude_roi) \/ containment_above_half(bbox, exclude_roi)

\* is_roi_at_edge: the side, or "none"
is_roi_at_edge(roi, frame_shape, margin) ==
    IF roi[1] < margin THEN "left"
    ELSE IF roi[3] > frame_shape[2] - margin THEN "right"
    ELSE IF roi[2] < margin THEN "top"
    ELSE IF roi[4] > frame_shape[1] - margin THEN "bottom"
    ELSE "none"

\* expand_roi_by_direction
expand_roi_by_direction(roi, direction, frame_shape, expand_pixels) ==
    << IF direction \in { "left", "both" } THEN Max(0, roi[1] - expand_pixels) ELSE roi[1],
       roi[2],
       IF direction \in { "right", "both" } THEN Min(frame_shape[2], roi[3] + expand_pixels)
       ELSE roi[3],
       roi[4] >>

\* the first element of seq that satisfies the test, as a set
FirstOf(seq, ok) ==
    { seq[i] : i \in { j \in 1..Len(seq) : ok[j] /\ \A k \in 1..(j - 1) : ~ok[k] } }

\* _ocr_recognize_region: the first candidate with conf >= 0.6 that parses
ocr_recognize_region(result) ==
    FirstOf(result, [ j \in 1..Len(result) |->
                        result[j].conf >= OCR_MIN_CONF /\ parse_time_auto(result[j].text) # NoText ])

\* the re-read of the expanded region: the first text that parses and is
\* complete
reread_complete(result) ==
    FirstOf(result, [ j \in 1..Len(result) |->
                        /\ parse_time_auto(result[j].text) # NoText
                        /\ check_time_format_complete(parse_time_auto(result[j].text),
                                                      result[j].text).complete ])

\* _verify_and_expand_roi for the candidate c; reread is what the ocr call
\* on the expanded region returns
verify_and_expand_roi(c, frame_shape, exclude_roi, reread) ==
    LET time_str == parse_time_auto(c.text)
        check == check_time_format_complete(time_str, c.text)
        expanded_bbox == expand_roi_by_direction(c.bbox, check.missing, frame_shape,
                                                 EXPAND_PIXELS)
        edge_side == is_roi_at_edge(c.bbox, frame_shape, EDGE_MARGIN)
    IN  IF excluded(c.bbox, exclude_roi) THEN NoHit
        ELSE IF check.complete THEN [ bbox |-> c.bbox, time_str |-> time_str ]
        ELSE IF /\ edge_side # "none"
                /\ is_roi_at_edge(expanded_bbox, frame_shape, EDGE_MARGIN_AFTER) = edge_side
        THEN NoHit
        ELSE IF reread_complete(reread) = { } THEN NoHit
        ELSE [ bbox |-> expanded_bbox,
               time_str |-> parse_time_auto((CHOOSE n \in reread_complete(reread) : TRUE).text) ]

\* one search phase: recognition of a region, then the verification of
\* the candidate it returned
region_hit(result, frame_shape, exclude_roi, reread) ==
    IF ocr_recognize_region(result) = { } THEN NoHit
    ELSE verify_and_expand_roi(CHOOSE c \in ocr_recognize_region(result) : TRUE,
                               frame_shape, exclude_roi, reread)

\* the global search: the first of the crops whose phase gives a label
crops_hit(crops, frame_shape, exclude_roi, reread) ==
    LET hit(k) == region_hit(crops[k], frame_shape, exclude_roi, reread)
        found == { k \in 1..Len(crops) : hit(k) # NoHit }
    IN  IF found = { } THEN NoHit ELSE hit(SetMin(found))

\* the frame, the excluded T_app region and the recognition outputs
\* a 400 x 200 frame: the crops of global search are (100, 50, 300, 150),
\* (60, 30, 340, 170) and (20, 10, 380, 190); the T_app label lies inside
\* the first crop, and every candidate of a crop lies inside that crop
FrameShape == << 200, 400 >>
AppRoi == << 110, 60, 160, 80 >>
AppText == ColonText(12, 34, 0, << 0, 0, 0 >>)
RealText == ColonText(12, 34, 56, << 7, 8, 9 >>)
CutText == << 1, COLON >> \o RealText
RealRoi == << 220, 60, 270, 80 >>
EdgeRoi == << 4, 100, 40, 115 >>
CandApp == [ text |-> AppText, conf |-> 90, bbox |-> << 112, 60, 158, 80 >> ]
CandReal == [ text |-> RealText, conf |-> 90, bbox |-> RealRoi ]
CandFaint == [ text |-> RealText, conf |-> 50, bbox |-> RealRoi ]
CandCut == [ text |-> CutText, conf |-> 90, bbox |-> << 160, 60, 200, 80 >> ]
CandEdge == [ text |-> CutText, conf |-> 90, bbox |-> EdgeRoi ]
CandOther == [ text |-> << BLANK >>, conf |-> 90, bbox |-> << 220, 100, 270, 115 >> ]
OcrResults ==
    { << >>, << CandReal >>, << CandApp >>, << CandApp, CandReal >>, << CandReal, CandApp >>,
      << CandOther, CandReal >>, << CandFaint >>, << CandCut >> }
\* what the search region around the tracked region can show
FastResults(t) ==
    IF t.roi = RealRoi THEN { << >>, << CandReal >>, << CandFaint >> }
    ELSE IF t.roi = EdgeRoi THEN { << >>, << CandEdge >> }
    ELSE { << >> }
Rereads == { << >>, << CandApp >>, << CandOther, CandReal >> }
ExcludeRois == { NoneRoi, AppRoi }

InitSearch ==
    /\ roi_tracker \in { NewTracker, establish_roi(NewTracker, RealRoi, 0),
                         establish_roi(NewTracker, EdgeRoi, 0) }
    /\ anomaly_detector = NewDetector(CONFIG_HARD_DELAY_MAX_MS)
    /\ results = << >>
    /\ frame_idx = 1
    /\ frame_step = 1
    /\ fail_run = 0
    /\ monitor = NoMonitor
    /\ ncalls = 0
    /\ \E exclude_roi \in ExcludeRois, fast \in FastResults(roi_tracker), crop \in OcrResults,
          wide \in { << >>, << CandReal >> }, reread \in Rereads :
         call = [ op |-> "frame", exclude_roi |-> exclude_roi, fast |-> fast,
                  crops |-> << crop, crop, wide >>, reread |-> reread ]

\* detect_time_real_optimized on the recognition outputs of the frame
DetectReal ==
    /\ call.op = "frame"
    /\ \E r \in { detect_time_real_optimized(
                    roi_tracker, frame_idx,
                    region_hit(call.fast, FrameShape, call.exclude_roi, call.reread),
                    crops_hit(call.crops, FrameShape, call.exclude_roi, call.reread)) } :
         /\ roi_tracker' = r.tracker
         /\ call' = [ op |-> "detect_time_real_optimized", exclude_roi |-> call.exclude_roi,
                      fast |-> call.fast, crops |-> call.crops, reread |-> call.reread,
                      fast_tried |-> r.fast_tried, global_tried |-> r.global_tried,
                      roi |-> r.roi, time_str |-> r.time_str ]
    /\ UNCHANGED << anomaly_detector, results, frame_idx, frame_step, fail_run, ncalls,
                    monitor >>

NextSearch == DetectReal
SpecSearch == InitSearch /\ [][NextSearch]_vars

\* a candidate that global search is meant to accept
Acceptable(c, exclude_roi) ==
    /\ c.conf >= OCR_MIN_CONF
    /\ parse_time_auto(c.text) # NoText
    /\ check_time_format_complete(parse_time_auto(c.text), c.text).complete
    /\ ~excluded(c.bbox, exclude_roi)

\* C29 as stated: global search returns a T_real label whenever the output
\* of at least one crop holds a candidate with conf >= 0.6 that parses, is
\* complete and is not excluded, also when an excluded candidate precedes
\* it in the same crop's list.
C29_Original ==
    ( /\ call.op = "detect_time_real_optimized"
      /\ call.global_tried
      /\ \E k \in 1..Len(call.crops) : \E i \in 1..Len(call.crops[k]) :
           Acceptable(call.crops[k][i], call.exclude_roi) )
    => call.time_str # NoText

\* C30 as stated: no label returned by detect_time_real_optimized has a
\* region whose IoU with the exclusion region or whose containment ratio
\* exceeds 0.5, and the region stored in the tracker never does either.
C30_Original ==
    ( call.op = "detect_time_real_optimized" /\ call.time_str # NoText )
    => /\ ~excluded(call.roi, call.exclude_roi)
       /\ ~excluded(roi_tracker.roi, call.exclude_roi)

\* ---------------------------------------------------------------------
\* The tracker inside detect_time_real_optimized, call after call
\* ---------------------------------------------------------------------
\* the tracker after a failed update that did not meet the reset condition
FailedOnce(t) ==
    [ t EXCEPT !.consecutive_fails = @ + 1, !.roi_confidence = Max(0, @ - CONF_DOWN),
               !.total_uses = @ + 1 ]
ResetDue(t) ==
    FailedOnce(t).consecutive_fails >= MAX_FAILS \/ FailedOnce(t).roi_confidence < CONF_RESET

\* C31: a failed fast-track attempt adds 1 to consecutive_fails and takes
\* 0.1 off the confidence (not below 0), keeps the stored region unless the
\* reset condition is met, and the same call goes on to the global search;
\* when that search succeeds the tracker ends the call established
\* (confidence 0.5, consecutive_fails 0, last_success_frame the current
\* frame).
C31_FailedFastTrackFallsBack ==
    [][ (ncalls' = ncalls + 1 /\ IsDetect(call') /\ call'.fast_tried)
        => /\ ~call'.global_tried => call'.time_str # NoLabel
           /\ call'.global_tried =>
                /\ call'.ops # << >> /\ Head(call'.ops) = "update_roi_fail"
                /\ IF call'.time_str # NoLabel
                   THEN /\ roi_tracker'.roi = call'.roi
                        /\ roi_tracker'.roi_confidence = CONF_INIT
                        /\ roi_tracker'.consecutive_fails = 0
                        /\ roi_tracker'.last_success_frame = frame_idx'
                   ELSE IF ResetDue(roi_tracker) THEN roi_tracker'.roi = NoneRoi
                   ELSE roi_tracker' = FailedOnce(roi_tracker) ]_vars

C31_Witness ==
    /\ IsDetect(call) /\ call.fast_tried /\ call.global_tried
    /\ call.ops = << "update_roi_fail", "establish_roi" >>
    /\ roi_tracker.roi = call.roi
    /\ roi_tracker.last_success_frame = frame_idx

\* C32: a successful fast-track update replaces the stored region with the
\* new detection, sets consecutive_fails to 0 and last_success_frame to the
\* current frame, and raises the confidence by 0.1 when it was below 0.6 and
\* by 0.05 otherwise, capped at 1.0; the confidence never decreases on
\* success.
C32_SuccessRaisesConfidence ==
    [][ (ncalls' = ncalls + 1 /\ IsDetect(call') /\ call'.fast_tried /\ ~call'.global_tried)
        => /\ call'.ops = << "update_roi_ok" >>
           /\ roi_tracker'.roi = call'.roi
           /\ roi_tracker'.consecutive_fails = 0
           /\ roi_tracker'.last_success_frame = frame_idx'
           /\ roi_tracker'.roi_confidence =
                Min(CONF_ONE, roi_tracker.roi_confidence
                              + (IF roi_tracker.roi_confidence < CONF_STABLE
                                 THEN CONF_UP_FAST ELSE CONF_UP_SLOW))
           /\ roi_tracker'.roi_confidence >= roi_tracker.roi_confidence
           /\ roi_tracker'.roi_confidence <= CONF_ONE ]_vars

C32_Witness ==
    /\ IsDetect(call) /\ call.fast_tried /\ ~call.global_tried
    /\ call.ops = << "update_roi_ok" >>
    /\ roi_tracker.roi_confidence = CONF_ONE
    /\ roi_tracker.roi = call.roi

\* the four conditions of a usable region, stated together
Usable(t, f) ==
    /\ t.roi # NoneRoi
    /\ t.consecutive_fails < MAX_FAILS
    /\ f - t.last_success_frame <= MAX_FRAME_GAP
    /\ t.roi_confidence >= CONF_VALID

\* C33: has_valid_roi(frame_idx) is true exactly when a region is set,
\* consecutive_fails < 3, frame_idx - last_success_frame <= 100 and the
\* confidence is at least 0.5; detect_time_real_optimized attempts the fast
\* track exactly when it is true and otherwise goes straight to the global
\* search without touching the tracker before it, so a held region with
\* confidence in [0.3, 0.5) is never fast-tracked.
C33_FastTrackIffValid ==
    /\ [](\A f \in ProbeFrames : has_valid_roi(roi_tracker, f) <=> Usable(roi_tracker, f))
    /\ [][ (ncalls' = ncalls + 1 /\ IsDetect(call'))
           => /\ call'.fast_tried <=> Usable(roi_tracker, frame_idx')
              /\ ~call'.fast_tried =>
                   /\ call'.global_tried
                   /\ call'.ops \in { << >>, << "establish_roi" >> }
              /\ ( /\ roi_tracker.roi # NoneRoi
                   /\ roi_tracker.roi_confidence >= CONF_RESET
                   /\ roi_tracker.roi_confidence < CONF_VALID ) => ~call'.fast_tried ]_vars

C33_Witness ==
    /\ IsDetect(call) /\ ~call.fast_tried /\ call.global_tried
    /\ call.ops = << >>
    /\ roi_tracker.roi # NoneRoi
    /\ roi_tracker.roi_confidence >= CONF_RESET
    /\ roi_tracker.roi_confidence < CONF_VALID
    /\ roi_tracker.consecutive_fails < MAX_FAILS
    /\ frame_idx - roi_tracker.last_success_frame <= MAX_FRAME_GAP

\* C34: establish_roi(region, frame_idx), from any tracker state, sets the
\* region to the given one, the confidence to 0.5, consecutive_fails to 0,
\* last_success_frame to frame_idx and records one success; and after any
\* sequence of tracker operations success_count <= total_uses.
C34_EstablishAndCounters ==
    /\ roi_tracker.success_count <= roi_tracker.total_uses
    /\ call.op = "establish_roi" =>
         /\ roi_tracker.roi = call.roi
         /\ roi_tracker.roi_confidence = CONF_INIT
         /\ roi_tracker.consecutive_fails = 0
         /\ roi_tracker.last_success_frame = call.frame
         /\ roi_tracker.success_count = 1
         /\ roi_tracker.total_uses = 1

C34_Witness ==
    /\ call.op = "establish_roi"
    /\ call.before.roi # NoneRoi /\ call.before.roi # call.roi
    /\ call.before.consecutive_fails > 0
    /\ call.before.total_uses > call.before.success_count
    /\ call.before.success_count > 1
    /\ roi_tracker.success_count = 1

\* C35 as stated: the configured cap H and -5000 ms are the only hard
\* bounds: a delay in [-5000, H] is never rejected by the hard-bound step
\* of check_detector_a, also when H is above 10000 ms.
C35_Original ==
    ( /\ call.op = "check_detector_a"
      /\ call.delay_ms >= NEGATIVE_LIMIT_MS
      /\ call.delay_ms <= anomaly_detector.hard_delay_max_ms )
    => call.ret.reason \notin HardReasons

\* ---------------------------------------------------------------------
\* _verify_and_expand_roi on its own: the candidate handed over by the
\* caller (time_str is the parse of its text), and the recognition calls
\* it makes on an expanded region
\* ---------------------------------------------------------------------
\* the number of ocr.ocr calls _verify_and_expand_roi makes for c
verify_ocr_calls(c, frame_shape, exclude_roi) ==
    LET time_str == parse_time_auto(c.text)
        check == check_time_format_complete(time_str, c.text)
        expanded_bbox == expand_roi_by_direction(c.bbox, check.missing, frame_shape,
                                                 EXPAND_PIXELS)
        edge_side == is_roi_at_edge(c.bbox, frame_shape, EDGE_MARGIN)
    IN  IF excluded(c.bbox, exclude_roi) THEN 0
        ELSE IF check.complete THEN 0
        ELSE IF /\ edge_side # "none"
                /\ is_roi_at_edge(expanded_bbox, frame_shape, EDGE_MARGIN_AFTER) = edge_side
        THEN 0
        ELSE 1

\* regions of a found label: inside the frame, at its left edge, near the
\* left edge, at the top, at the bottom, at the right edge
VerifyBoxes ==
    { RealRoi, << 160, 60, 200, 80 >>, EdgeRoi, << 30, 60, 80, 80 >>, << 160, 2, 200, 20 >>,
      << 160, 8, 200, 26 >>, << 160, 180, 200, 197 >>, << 350, 60, 397, 80 >> }
VerifyTexts == { RealText, CutText, << BLANK, 9, COLON, 1, 2, COLON, 3, 4, COLON, 5, 6 >> }

InitVerify ==
    /\ roi_tracker = NewTracker
    /\ anomaly_detector = NewDetector(CONFIG_HARD_DELAY_MAX_MS)
    /\ results = << >>
    /\ frame_idx = 0
    /\ frame_step = 1
    /\ fail_run = 0
    /\ monitor = NoMonitor
    /\ ncalls = 0
    /\ \E bbox \in VerifyBoxes, text \in VerifyTexts, exclude_roi \in ExcludeRois,
          reread \in Rereads :
         call = [ op |-> "candidate", c |-> [ text |-> text, conf |-> 90, bbox |-> bbox ],
                  exclude_roi |-> exclude_roi, reread |-> reread ]

\* one call of _verify_and_expand_roi
VerifyAndExpand ==
    /\ call.op = "candidate"
    /\ call' = [ op |-> "_verify_and_expand_roi", c |-> call.c,
                 exclude_roi |-> call.exclude_roi, reread |-> call.reread,
                 ocr_calls |-> verify_ocr_calls(call.c, FrameShape, call.exclude_roi),
                 ret |-> verify_and_expand_roi(call.c, FrameShape, call.exclude_roi,
                                               call.reread) ]
    /\ UNCHANGED << roi_tracker, anomaly_detector, results, frame_idx, frame_step, fail_run,
                    ncalls, monitor >>

NextVerify == VerifyAndExpand
SpecVerify == InitVerify /\ [][NextVerify]_vars

\* the region touches the frame edge on the named side (margin 10)
TouchesSide(bbox, side, frame_shape) ==
    \/ side \in { "left", "both" } /\ bbox[1] < EDGE_MARGIN
    \/ side \in { "right", "both" } /\ bbox[3] > frame_shape[2] - EDGE_MARGIN

\* C36 as stated: a label that fails the completeness check and whose
\* region does not touch the frame edge on the side of the missing field is
\* expanded by 50 px toward that side and recognized again exactly once,
\* whatever other edge (top, bottom) the region touches.
C36_Original ==
    ( /\ call.op = "_verify_and_expand_roi"
      /\ ~excluded(call.c.bbox, call.exclude_roi)
      /\ ~check_time_format_complete(parse_time_auto(call.c.text), call.c.text).complete
      /\ ~TouchesSide(call.c.bbox,
                      check_time_format_complete(parse_time_auto(call.c.text),
                                                 call.c.text).missing, FrameShape) )
    => call.ocr_calls = 1

\* ---------------------------------------------------------------------
\* The crop loop of the global search, crop by crop: a crop is empty
\* (region.size == 0), or its recognition raises, or it returns a list of
\* candidates
\* ---------------------------------------------------------------------
EmptyCrop == [ kind |-> "empty", result |-> << >> ]
RaisingCrop == [ kind |-> "raise", result |-> << >> ]
OcrCrop(result) == [ kind |-> "ocr", result |-> result ]

\* the label a crop yields to the loop (none when empty or raising)
crop_hit(crop, frame_shape, exclude_roi, reread) ==
    IF crop.kind = "ocr" THEN region_hit(crop.result, frame_shape, exclude_roi, reread)
    ELSE NoHit

\* the crop loop that goes through all the crops and keeps the last label;
\* hits[k] is what crop k yields
global_scan_last(crops, hits) ==
    LET found == { k \in 1..Len(crops) : hits[k] # NoHit }
    IN  [ hit |-> IF found = { } THEN NoHit ELSE hits[SetMax(found)],
          scanned |-> { k \in 1..Len(crops) : crops[k].kind # "empty" } ]

\* the crop loop: the label it returns and the crops it ran the
\* recognition on; hits[k] is what crop k yields when the loop gets to it
global_scan(crops, hits) ==
    LET found == { k \in 1..Len(crops) : hits[k] # NoHit }
        last == IF found = { } THEN Len(crops) ELSE SetMin(found)
    IN  [ hit |-> IF found = { } THEN NoHit ELSE hits[last],
          scanned |-> { k \in 1..last : crops[k].kind # "empty" } ]

\* the crops of a frame: all three empty (a degenerate frame), or each one
\* raising or returning a list
LiveCrops ==
    { RaisingCrop } \cup { OcrCrop(r) : r \in { << >>, << CandReal >>, << CandApp, CandReal >>,
                                                << CandCut >> } }
CropTriples ==
    { << EmptyCrop, EmptyCrop, EmptyCrop >> } \cup (LiveCrops \X LiveCrops \X LiveCrops)

InitCrops ==
    /\ roi_tracker \in { NewTracker, establish_roi(NewTracker, RealRoi, 0) }
    /\ anomaly_detector = NewDetector(CONFIG_HARD_DELAY_MAX_MS)
    /\ results = << >>
    /\ frame_idx = 1
    /\ frame_step = 1
    /\ fail_run = 0
    /\ monitor = NoMonitor
    /\ ncalls = 0
    /\ \E exclude_roi \in ExcludeRois, fast \in FastResults(roi_tracker), crops \in CropTriples,
          reread \in { << >>, << CandOther, CandReal >> } :
         call = [ op |-> "frame", exclude_roi |-> exclude_roi, fast |-> fast,
                  crops |-> crops, reread |-> reread ]

\* detect_time_real_optimized with the crop loop spelled out
DetectCrops ==
    /\ call.op = "frame"
    /\ \E fast_hit \in { region_hit(call.fast, FrameShape, call.exclude_roi, call.reread) },
          h1 \in { crop_hit(call.crops[1], FrameShape, call.exclude_roi, call.reread) },
          h2 \in { crop_hit(call.crops[2], FrameShape, call.exclude_roi, call.reread) },
          h3 \in { crop_hit(call.crops[3], FrameShape, call.exclude_roi, call.reread) } :
       \E scan \in { global_scan(call.crops, << h1, h2, h3 >>) } :
       \E r \in { detect_time_real_optimized(roi_tracker, frame_idx, fast_hit, scan.hit) } :
         /\ roi_tracker' = r.tracker
         /\ call' = [ op |-> "detect_crops", exclude_roi |-> call.exclude_roi,
                      fast |-> call.fast, crops |-> call.crops, reread |-> call.reread,
                      hits |-> << h1, h2, h3 >>,
                      before |-> roi_tracker,
                      fast_tried |-> r.fast_tried, global_tried |-> r.global_tried,
                      scanned |-> IF r.global_tried THEN scan.scanned ELSE { },
                      roi |-> r.roi, time_str |-> r.time_str ]
    /\ UNCHANGED << anomaly_detector, results, frame_idx, frame_step, fail_run, ncalls,
                    monitor >>

NextCrops == DetectCrops
SpecCrops == InitCrops /\ [][NextCrops]_vars

\* crop k of the call yields an accepted label
Yields(k) == call.hits[k] # NoHit
\* the tracker as the global search finds it: after the failed fast track
\* when there was one
AtGlobalSearch ==
    IF call.fast_tried THEN update_roi(call.before, call.before.roi, frame_idx, FALSE)
    ELSE call.before

\* C37: the global search takes the crops in the order 50%, 70%, 90%; it
\* returns the label of the first crop that yields an accepted one without
\* running the recognition on a later crop and calls establish_roi with
\* that label's region; a crop that is empty, raises or yields no accepted
\* label is passed over; when all three fail the call returns no label and
\* the search leaves the tracker as it found it.
C37_FirstCropWins ==
    ( call.op = "detect_crops" /\ call.global_tried )
    => /\ \A k \in 1..3 :
            ( Yields(k) /\ \A j \in 1..(k - 1) : ~Yields(j) )
            => /\ call.time_str = call.hits[k].time_str
               /\ call.roi = call.hits[k].bbox
               /\ call.scanned = 1..k
               /\ roi_tracker = establish_roi(AtGlobalSearch, call.roi, frame_idx)
       /\ ( \A k \in 1..3 : ~Yields(k) )
            => /\ call.time_str = NoText /\ call.roi = NoneRoi
               /\ call.scanned = { k \in 1..3 : call.crops[k].kind # "empty" }
               /\ roi_tracker = AtGlobalSearch

C37_Witness ==
    /\ call.op = "detect_crops" /\ call.global_tried
    /\ call.crops[1].kind = "raise"
    /\ ~Yields(2) /\ call.crops[2].result # << >>
    /\ Yields(3)
    /\ call.scanned = { 1, 2, 3 }
    /\ roi_tracker.roi = call.roi /\ roi_tracker.roi_confidence = CONF_INIT

\* ---------------------------------------------------------------------
\* NetworkMonitor under a fair scheduler: a thread that can take a step
\* takes it, time passes while every thread waits, and a join whose thread
\* has ended or whose time is up returns
\* ---------------------------------------------------------------------
\* the default configuration with two targets, and one whose ping and sleep
\* both outlast the join timeout
FairConfigs ==
    { << DEFAULT_INTERVAL, DEFAULT_PING_TIMEOUT, 2 >>, << JOIN_TIMEOUT + 1, JOIN_TIMEOUT, 1 >> }
InitMonitorFair ==
    /\ InitMonitor
    /\ << monitor.interval, monitor.timeout, monitor.ntargets >> \in FairConfigs
SpecMonitorFair ==
    /\ InitMonitorFair /\ [][NextMonitor]_vars
    /\ WF_vars(LoopStep) /\ WF_vars(Tick) /\ WF_vars(MonitorJoinReturn)

\* C38: once stop() has cleared the running flag, a loop that sees the
\* flag cleared begins no ping, and unless start() sets the flag again
\* every loop ends on its own; stop() waits for the thread at most the join
\* timeout, returns, and does not end the thread itself.
C38_CooperativeStop ==
    /\ [][ \A i \in 1..Len(monitor.loops) :
             ( ~monitor.running /\ monitor.loops[i].pc # "ping" )
             => monitor'.loops[i].pc # "ping" ]_vars
    /\ [][ call'.op \in { "stop", "stop_return", "stop_ignored" }
           => monitor'.loops = monitor.loops ]_vars
    /\ [](monitor.caller = "join" => monitor.join_left <= JOIN_TIMEOUT)
    /\ (monitor.caller = "join") ~> (monitor.caller = "idle")
    /\ (~monitor.running) ~> (Alive(monitor) = { } \/ monitor.running)

C38_Witness ==
    /\ call.op = "while"
    /\ monitor.stopped /\ ~monitor.running
    /\ monitor.loops # << >>
    /\ Alive(monitor) = { }

\* the number of frames before the last one whose final status is accepted
AcceptedBefore ==
    Cardinality({ i \in 1..(Len(results) - 1) : results[i].status \in AcceptedStatus })

\* C39 as stated: the statistical check is evaluated on every 30th accepted
\* frame, counting accepted frames whatever their frame numbers and the
\* frame step: a frame that Detector A accepted is checked exactly when it
\* is the 30th, 60th, ... accepted frame, and a frame the check flags is
\* recorded as wrong with the statistical reason.
C39_Original ==
    ( IsFrame(call) /\ call.a_ran /\ call.a.ok )
    => /\ call.stat_ran <=> (AcceptedBefore + 1) % STAT_PERIOD = 0
       /\ LastRecord.error_reason = "statistical" => LastRecord.status = "wrong"

\* C40 as stated: colon-form parsing is strict: a text whose time has a
\* millisecond suffix of 1, 2 or more than 3 digits is rejected, a text
\* whose hour field has more than two digits is rejected, and a text
\* HH:MM:SS.mmm with a field out of range that holds no digit run of the
\* digit form gives absent.
C40_Original ==
    call.op = "parse_time_auto"
    => /\ call.text \in BadMillisTexts => call.time_str = NoText
       /\ call.text \in LongHourTexts => call.time_str = NoText
       /\ \A h \in TextHours, m \in TextMinutes, s \in TextSeconds, ms \in FullMillis :
            ( call.text = ColonText(h, m, s, ms) /\ ~InRange(h, m, s) )
            => call.time_str = NoText

====
